---------------------------- MODULE Spec2Model ----------------------------
(***************************************************************************)
(* A model of the chart-analysis server of retetare/viewchart:             *)
(*   - the in-memory pattern scorer of server/lib/openai.ts (the learning  *)
(*     table, the trading-pair profiles, pattern selection, statistics),   *)
(*   - the persisted learning store of server/storage.ts,                  *)
(*   - the feedback route of the route layer (server/db.ts, second half),  *)
(*   - the external-model wrapper of server/lib/chart-analyzer.ts,         *)
(*   - the view state machine of the extension popup                       *)
(*     (client/src/components/extension-popup.tsx).                        *)
(*                                                                         *)
(* JavaScript numbers are modelled as exact rationals <<n, d>> (d > 0),    *)
(* so floating-point rounding error is not represented; Math.random() is   *)
(* a nondeterministic draw from a small set of values of its range.        *)
(* Timestamps (lastUpdated, firstSeenDate) take no part in any decision of *)
(* the code and are left out of the records.                               *)
(***************************************************************************)
EXTENDS Integers, Sequences, FiniteSets, TLC

VARIABLES
    learnedPatterns,      \* openai.ts: Map pattern name -> learning entry
    tradingPairProfile,   \* openai.ts: Map pair symbol -> profile
    outcome,              \* the value the last analyzeChartImage call returned
    calls,                \* history variable: updateLearningModel calls per pattern
    patternLearning,      \* storage.ts: rows of table pattern_learning
    plCalls,              \* history variable: updatePatternLearning calls per pattern id
    analyses,             \* rows of table analyses; the id of a row is its index
    tradingPairs,         \* rows of table trading_pairs (the names)
    pairPatterns,         \* rows of table pair_patterns
    aiStats,              \* the row of table ai_stats
    local,                \* per client: the request being handled and its locals
    requests,             \* history variable: requests started
    learnedFrom,          \* history variable: updateLearningModel calls per analysis id
    unsaved,              \* history variable: analyses per pair whose saveAnalysis threw
    chart,                \* the analyzeChart call in progress and its locals
    chartCalls,           \* history variable: analyzeChart calls started
    viewState,            \* extension-popup.tsx: the view the popup shows
    captureMode,          \* extension-popup.tsx: the selection tool is open
    capturedImage,        \* extension-popup.tsx: the image last captured or selected
    currentAnalysis,      \* extension-popup.tsx: the analysis shown, or null
    mutations,            \* the analyzeImageMutation.mutate calls, in call order
    historyData,          \* the data of the query of /api/history
    feedbackSent          \* history variable: submitFeedbackMutation.mutate calls

scorerVars == <<learnedPatterns, tradingPairProfile, outcome, calls>>
storeVars == <<patternLearning, plCalls>>
serverVars == <<analyses, tradingPairs, pairPatterns, aiStats, local, requests, learnedFrom,
                unsaved>>
chartVars == <<chart, chartCalls>>
popupVars == <<viewState, captureMode, capturedImage, currentAnalysis, mutations,
               historyData, feedbackSent>>
vars == <<learnedPatterns, tradingPairProfile, outcome, calls, patternLearning, plCalls,
          analyses, tradingPairs, pairPatterns, aiStats, local, requests, learnedFrom,
          unsaved, chart, chartCalls, viewState, captureMode, capturedImage,
          currentAnalysis, mutations, historyData, feedbackSent>>

NULL == "null"
\* a boolean | null field holds "true", "false" or NULL
Tri(b) == IF b THEN "true" ELSE "false"

-----------------------------------------------------------------------------
(* Bounds of the model *)

\* feedback events of one run of SpecLearn
MaxLearnFeedback == 12

-----------------------------------------------------------------------------
(* Small helpers *)

Min(a, b) == IF a <= b THEN a ELSE b
Max(a, b) == IF a >= b THEN a ELSE b
Abs(a) == IF a >= 0 THEN a ELSE 0 - a

RECURSIVE GCD(_, _)
GCD(a, b) == IF b = 0 THEN a ELSE GCD(b, a % b)

\* the rational n/d in lowest terms, d > 0
Rat(n, d) ==
    LET s == IF d < 0 THEN 0 - 1 ELSE 1
        g == GCD(Abs(n), Abs(d))
    IN  <<(s * n) \div g, (s * d) \div g>>
RInt(k) == <<k, 1>>
RAdd(a, b) == Rat(a[1] * b[2] + b[1] * a[2], a[2] * b[2])
RSub(a, b) == Rat(a[1] * b[2] - b[1] * a[2], a[2] * b[2])
RMul(a, b) == Rat(a[1] * b[1], a[2] * b[2])
RLe(a, b) == a[1] * b[2] <= b[1] * a[2]
RLt(a, b) == a[1] * b[2] < b[1] * a[2]
RMin(a, b) == IF RLe(a, b) THEN a ELSE b
RMax(a, b) == IF RLe(a, b) THEN b ELSE a
RAbs(a) == <<Abs(a[1]), a[2]>>
RIsInt(a) == a[2] = 1
\* Math.round: the nearest integer, halves towards +Infinity
RRound(a) == (2 * a[1] + a[2]) \div (2 * a[2])

-----------------------------------------------------------------------------
(* The pattern taxonomy *)

Categories == <<"continuation", "reversal", "consolidation", "breakout", "candlestick">>

MARKET_PATTERNS ==
    [ continuation |->
        << "Higher Highs & Higher Lows (Uptrend)",
           "Lower Highs & Lower Lows (Downtrend)",
           "Moving Average Alignment (Price above EMAs)",
           "Moving Average Alignment (Price below EMAs)",
           "Bollinger Band Squeeze" >>,
      reversal |->
        << "Break of Structure (Failed Higher Highs)",
           "Break of Structure (Failed Lower Lows)",
           "RSI Divergence",
           "MACD Divergence",
           "Exhaustion Move (Overextension beyond Bollinger Bands)" >>,
      consolidation |->
        << "Inside Bar Pattern",
           "Narrow Range Bars",
           "Ascending Triangle Formation",
           "Descending Triangle Formation",
           "Symmetrical Triangle Formation" >>,
      breakout |->
        << "Range Breakout (Above Resistance)",
           "Range Breakout (Below Support)",
           "Moving Average Crossover (Bullish)",
           "Moving Average Crossover (Bearish)",
           "Volume Spike Breakout" >>,
      candlestick |->
        << "Bullish Engulfing Pattern",
           "Bearish Engulfing Pattern",
           "Hammer Candlestick",
           "Inverted Hammer Candlestick",
           "Morning Star Pattern",
           "Evening Star Pattern",
           "Doji Formation" >> ]

SeqRange(s) == { s[i] : i \in 1..Len(s) }

Taxonomy == UNION { SeqRange(MARKET_PATTERNS[c]) : c \in DOMAIN MARKET_PATTERNS }

\* the patterns that feedback is given for in the model
FeedbackPatterns == { "Hammer Candlestick", "Bollinger Band Squeeze" }

-----------------------------------------------------------------------------
(* The in-memory feedback integrator: updateLearningModel *)

NewEntry == [confidenceAdjustment |-> 0, feedbackCount |-> 0, successCount |-> 0]

\* "Cap adjustment": Math.max(-10, Math.min(10, x))
CapAdjustmentUncapped(x) == x
CapAdjustmentAtNine(x) == Max(0 - 9, Min(9, x))
CapAdjustment(x) == Max(0 - 10, Min(10, x))

\* the entry after one feedback event
BumpEntryCountsAll(e, isCorrect) ==
    [ feedbackCount |-> e.feedbackCount + 1,
      successCount |-> e.successCount + 1,
      confidenceAdjustment |->
          CapAdjustment(IF isCorrect THEN e.confidenceAdjustment + 1
                                     ELSE e.confidenceAdjustment - 1) ]
BumpEntryNoDecrement(e, isCorrect) ==
    [ feedbackCount |-> e.feedbackCount + 1,
      successCount |-> IF isCorrect THEN e.successCount + 1 ELSE e.successCount,
      confidenceAdjustment |->
          CapAdjustment(IF isCorrect THEN e.confidenceAdjustment + 1
                                     ELSE e.confidenceAdjustment) ]
BumpEntry(e, isCorrect) ==
    [ feedbackCount |-> e.feedbackCount + 1,
      successCount |-> IF isCorrect THEN e.successCount + 1 ELSE e.successCount,
      confidenceAdjustment |->
          CapAdjustment(IF isCorrect THEN e.confidenceAdjustment + 1
                                     ELSE e.confidenceAdjustment - 1) ]

\* the learning table after updateLearningModel(analysis, isCorrect),
\* analysis.pattern = pattern
updateLearningModelAll(table, pattern, isCorrect) ==
    LET before == IF pattern \in DOMAIN table THEN table[pattern] ELSE NewEntry
    IN  [ p \in DOMAIN table \cup {pattern} |->
            IF p = pattern THEN BumpEntry(before, isCorrect)
                           ELSE BumpEntry(table[p], isCorrect) ]
updateLearningModel(table, pattern, isCorrect) ==
    LET before == IF pattern \in DOMAIN table THEN table[pattern] ELSE NewEntry
    IN  [ p \in DOMAIN table \cup {pattern} |->
            IF p = pattern THEN BumpEntry(before, isCorrect) ELSE table[p] ]

\* history variable: one more call for the pattern
CountCall(c, pattern, isCorrect) ==
    [ c EXCEPT ![pattern] = [ n |-> @.n + 1,
                              ok |-> IF isCorrect THEN @.ok + 1 ELSE @.ok ] ]

-----------------------------------------------------------------------------
(* The persisted feedback integrator: DatabaseStorage.updatePatternLearning *)

\* trading_patterns.id of a pattern name: the seeding order of initializeDatabase
RECURSIVE IndexOf(_, _, _)
IndexOf(s, x, i) == IF i > Len(s) THEN 0 ELSE IF s[i] = x THEN i ELSE IndexOf(s, x, i + 1)

\* the names of patternData, the patterns initializeDatabase inserts into
\* trading_patterns
patternData ==
    [ continuation |->
        << "Higher Highs & Higher Lows (Uptrend)",
           "Lower Highs & Lower Lows (Downtrend)",
           "Moving Average Alignment (Price above EMAs)",
           "Moving Average Alignment (Price below EMAs)",
           "Bollinger Band Squeeze" >>,
      reversal |->
        << "Break of Structure (Failed Higher Highs)",
           "Break of Structure (Failed Lower Lows)",
           "RSI Divergence",
           "MACD Divergence",
           "Exhaustion Move (Overextension beyond Bollinger Bands)" >>,
      consolidation |->
        << "Inside Bar Pattern",
           "Narrow Range Bars",
           "Ascending Triangle Formation",
           "Descending Triangle Formation",
           "Symmetrical Triangle Formation" >>,
      breakout |->
        << "Range Breakout (Above Resistance)",
           "Range Breakout (Below Support)",
           "Moving Average Crossover (Bullish)",
           "Moving Average Crossover (Bearish)",
           "Volume Spike Breakout" >>,
      candlestick |->
        << "Bullish Engulfing Pattern",
           "Bearish Engulfing Pattern",
           "Hammer Candlestick",
           "Inverted Hammer Candlestick",
           "Morning Star Pattern",
           "Evening Star Pattern",
           "Doji Formation" >> ]

\* the mutant seeds the first 25 names only
SeededPatternsFirst25 ==
    SubSeq(patternData.continuation \o patternData.reversal
           \o patternData.consolidation \o patternData.breakout
           \o patternData.candlestick, 1, 25)
SeededPatterns ==
    patternData.continuation \o patternData.reversal
    \o patternData.consolidation \o patternData.breakout
    \o patternData.candlestick

PatternId(name) == IndexOf(SeededPatterns, name, 1)

\* select * from pattern_learning where pattern_id = patternId: the row indexes
SelectLearning(rows, patternId) ==
    { i \in 1..Len(rows) : rows[i].patternId = patternId }

\* the row written by the update branch, from the row that was read; the
\* mutant has no lower cap
UpdatedLearningRowNoFloor(row, isCorrect) ==
    [ row EXCEPT
        !.feedbackCount = row.feedbackCount + 1,
        !.successCount = IF isCorrect THEN row.successCount + 1 ELSE row.successCount,
        !.confidenceAdjustment = IF isCorrect
                                    THEN Min(row.confidenceAdjustment + 1, 10)
                                    ELSE row.confidenceAdjustment - 1 ]
UpdatedLearningRow(row, isCorrect) ==
    [ row EXCEPT
        !.feedbackCount = row.feedbackCount + 1,
        !.successCount = IF isCorrect THEN row.successCount + 1 ELSE row.successCount,
        !.confidenceAdjustment = IF isCorrect
                                    THEN Min(row.confidenceAdjustment + 1, 10)
                                    ELSE Max(row.confidenceAdjustment - 1, 0 - 10) ]

\* the row inserted when no row was read
InsertedLearningRow(patternId, isCorrect) ==
    [ patternId |-> patternId,
      feedbackCount |-> 1,
      successCount |-> IF isCorrect THEN 1 ELSE 0,
      confidenceAdjustment |-> IF isCorrect THEN 1 ELSE 0 - 1 ]

\* update pattern_learning set ... where id = the id of the row that was read;
\* `read` is the index of that row and `seen` its contents when it was read
WriteLearningUpdate(rows, read, seen, isCorrect) ==
    [ rows EXCEPT ![read] = UpdatedLearningRow(seen, isCorrect) ]

WriteLearningInsert(rows, patternId, isCorrect) ==
    Append(rows, InsertedLearningRow(patternId, isCorrect))

\* updatePatternLearning run without interleaving: the possible tables after it
\* (without ORDER BY the row the select returns first is any matching row)
updatePatternLearningSeq(rows, patternId, isCorrect) ==
    LET found == SelectLearning(rows, patternId)
    IN  IF found = {}
          THEN { WriteLearningInsert(rows, patternId, isCorrect) }
          ELSE { WriteLearningUpdate(rows, i, rows[i], isCorrect) : i \in found }

-----------------------------------------------------------------------------
(* SpecLearn: feedback events processed one after the other by both        *)
(* integrators                                                             *)

NoCalls == [ p \in Taxonomy |-> [n |-> 0, ok |-> 0] ]
NoPlCalls == [ i \in 1..Len(SeededPatterns) |-> [n |-> 0, ok |-> 0] ]
NoOutcome == [kind |-> "none"]

TotalCalls(c) ==
    LET RECURSIVE Sum(_)
        Sum(S) == IF S = {} THEN 0
                  ELSE LET x == CHOOSE y \in S : TRUE IN c[x].n + Sum(S \ {x})
    IN  Sum(DOMAIN c)

\* the handlers that can be in progress at once
Clients == {1, 2}

\* no analysis was lost by saveAnalysis
NoneUnsaved == [ pair \in {"BTC/USD", "USD/JPY"} |-> 0 ]

\* null, the initial value of capturedImage and currentAnalysis
NoValue == [kind |-> "null"]

\* the ai_stats row initializeDatabase inserts
SeededStats ==
    [ totalAnalyses |-> 0, feedbackCount |-> 0, overallAccuracy |-> <<0, 1>>,
      patternsLearned |-> Len(SeededPatterns) ]

InitTables ==
    /\ learnedPatterns = << >>
    /\ tradingPairProfile = << >>
    /\ outcome = NoOutcome
    /\ calls = NoCalls
    /\ patternLearning = << >>
    /\ plCalls = NoPlCalls
    /\ analyses = << >>
    /\ tradingPairs = << >>
    /\ pairPatterns = << >>
    /\ aiStats = SeededStats
    /\ local = [ c \in Clients |-> [pc |-> "idle"] ]
    /\ requests = 0
    /\ learnedFrom = << >>
    /\ unsaved = NoneUnsaved
    /\ chart = [pc |-> "idle"]
    /\ chartCalls = 0
    /\ viewState = "capture"
    /\ captureMode = FALSE
    /\ capturedImage = NoValue
    /\ currentAnalysis = NoValue
    /\ mutations = << >>
    /\ historyData = << >>
    /\ feedbackSent = 0

\* one feedback event for `pattern`: the in-memory update, then the persisted one
RecordFeedback(pattern, isCorrect) ==
    /\ TotalCalls(calls) < MaxLearnFeedback
    /\ learnedPatterns' = updateLearningModel(learnedPatterns, pattern, isCorrect)
    /\ calls' = CountCall(calls, pattern, isCorrect)
    /\ patternLearning' \in
           updatePatternLearningSeq(patternLearning, PatternId(pattern), isCorrect)
    /\ plCalls' = CountCall(plCalls, PatternId(pattern), isCorrect)
    /\ UNCHANGED <<tradingPairProfile, outcome>>
    /\ UNCHANGED <<serverVars, chartVars, popupVars>>

NextLearn == \E p \in FeedbackPatterns, b \in BOOLEAN : RecordFeedback(p, b)

SpecLearn == InitTables /\ [][NextLearn]_vars

-----------------------------------------------------------------------------
(* The inputs of an analysis: extractTradingInfo, the history list and the *)
(* values Math.random() returns                                            *)

\* extractTradingInfo: a pair of the list and its entry price. The price of
\* "BTC/USD" is Math.round(60000 + random * 5000); "USD/JPY" matches none of
\* the basePrice branches, so its entry is 0.
extractTradingInfo ==
    { [pair |-> "BTC/USD", entry |-> 60000],
      [pair |-> "BTC/USD", entry |-> 63000],
      [pair |-> "USD/JPY", entry |-> 0] }

\* the historicalAnalyses lists an analysis is called with
HistoryItem(p, fb) == [pattern |-> p, feedback |-> fb]
HistoryChoices ==
    { << >>,
      << HistoryItem("Hammer Candlestick", "true"),
         HistoryItem("Hammer Candlestick", "true"),
         HistoryItem("Hammer Candlestick", "true"),
         HistoryItem("Doji Formation", NULL),
         HistoryItem("Doji Formation", NULL),
         HistoryItem("Doji Formation", NULL),
         HistoryItem("Doji Formation", "false"),
         HistoryItem("Doji Formation", "false") >> }

\* the values of the Math.random() calls of one analysis:
\*   category  Math.floor(random * categories.length) + 1   (line 173)
\*   select    rand of the weighted selection, in [0, 1)    (line 219)
\*   conf      Math.floor(random * 30)                      (line 234)
\*   up        random > 0.5                                 (lines 247, 253)
\*   win       Math.floor(random * 20)                      (line 285)
\*   sample    Math.floor(random * 350)                     (line 286)
SelectDraws == { <<0, 1>>, <<1, 2>>, <<999, 1000>> }
RandomDraws ==
    { [category |-> c, select |-> r, conf |-> x[1], up |-> x[4], win |-> x[2], sample |-> x[3]] :
        c \in {1, 5}, r \in SelectDraws,
        x \in { <<0, 0, 0, TRUE>>, <<29, 19, 349, FALSE>> } }
    \cup
    { [category |-> c, select |-> <<1, 2>>, conf |-> 15, up |-> TRUE, win |-> 10, sample |-> 100] :
        c \in {3} }

-----------------------------------------------------------------------------
(* Pattern selection: enhancedPatternRecognition *)

Count(seq, Test(_)) == Cardinality({ i \in 1..Len(seq) : Test(seq[i]) })

\* The weight of one pattern before normalization (lines 177-209), as the
\* fraction <<numerator, denominator>>, not reduced:
\*   (1 + confidenceAdjustment) * (0.5 + successCount / feedbackCount)
\*     * (1 + occurrences / 10) * (1 + inHistory / 10)
PatternWeight(table, profiles, info, history, pattern) ==
    LET learned == pattern \in DOMAIN table
        rated == learned /\ table[pattern].feedbackCount > 0
        seen == /\ info.pair \in DOMAIN profiles
                /\ pattern \in DOMAIN profiles[info.pair].patterns
                /\ profiles[info.pair].patterns[pattern] # 0
        inHistory == Count(history, LAMBDA item : item.pattern = pattern /\ item.feedback = "true")
    IN  << (1 + (IF learned THEN table[pattern].confidenceAdjustment ELSE 0))
             * (IF rated THEN table[pattern].feedbackCount + 2 * table[pattern].successCount
                         ELSE 1)
             * (IF seen THEN 10 + profiles[info.pair].patterns[pattern] ELSE 10)
             * (10 + inHistory),
           (IF rated THEN 2 * table[pattern].feedbackCount ELSE 1) * 100 >>

\* the weights over a common denominator: the denominator, and the numerators
LCM(a, b) == (a \div GCD(a, b)) * b

RECURSIVE CommonDen(_, _)
CommonDen(ws, k) == IF k = 0 THEN 1 ELSE LCM(CommonDen(ws, k - 1), ws[k][2])

Scaled(ws, den) == [ i \in DOMAIN ws |-> ws[i][1] * (den \div ws[i][2]) ]

RECURSIVE IntSum(_, _)
IntSum(ns, k) == IF k = 0 THEN 0 ELSE IntSum(ns, k - 1) + ns[k]

\* rand <= cumulative / total, for total # 0
Reached(rand, cumulative, total) ==
    IF total > 0 THEN rand[1] * total <= cumulative * rand[2]
                 ELSE rand[1] * total >= cumulative * rand[2]

\* the index of the first pattern whose cumulative normalized weight is >= rand,
\* 0 when there is none
RECURSIVE FirstReached(_, _, _, _, _)
FirstReached(ns, i, before, total, rand) ==
    IF i > Len(ns) THEN 0
    ELSE IF Reached(rand, before + ns[i], total) THEN i
    ELSE FirstReached(ns, i + 1, before + ns[i], total, rand)

\* the weighted random selection (lines 211-229): the first pattern whose
\* cumulative normalized weight is >= rand, and patterns[0] when there is none.
\* When totalWeight is 0 every normalized weight is +-Infinity or NaN: the
\* cumulative weight is +Infinity at the first pattern or never >= rand, and
\* patterns[0] is selected in both cases.
SelectIndex(ns, rand) ==
    LET total == IntSum(ns, Len(ns))
    IN  IF total = 0 THEN 0 ELSE FirstReached(ns, 1, 0, total, rand)

SelectPattern(patterns, ws, rand) ==
    LET hit == SelectIndex(Scaled(ws, CommonDen(ws, Len(ws))), rand)
    IN  IF hit = 0 THEN patterns[1] ELSE patterns[hit]

\* "Cap confidence between 50-95"
CapConfidenceNone(c) == c
CapConfidence(c) == RMax(RInt(50), RMin(RInt(95), c))

\* |entry / lastSeenPrice - 1|
PriceChange(entry, last) == RAbs(RSub(Rat(entry, last), RInt(1)))

\* "If we know the last price": the pair has a profile, pairData.lastSeenPrice
\* and tradingInfo.entry are truthy (lines 236-240)
PriceKnown(profiles, info) ==
    /\ info.pair \in DOMAIN profiles
    /\ profiles[info.pair].lastSeenPrice # 0
    /\ info.entry # 0

\* the prediction (lines 231-254); the mutant compares with >=
DirectionAtLeast(profiles, info, draw) ==
    IF PriceKnown(profiles, info)
      THEN IF info.entry >= profiles[info.pair].lastSeenPrice THEN "bullish" ELSE "bearish"
      ELSE IF draw.up THEN "bullish" ELSE "bearish"

Direction(profiles, info, draw) ==
    IF PriceKnown(profiles, info)
      THEN IF info.entry > profiles[info.pair].lastSeenPrice THEN "bullish" ELSE "bearish"
      ELSE IF draw.up THEN "bullish" ELSE "bearish"

\* the prediction and the confidence, once the pattern is selected (lines 231-276)
PredictAndScore(table, profiles, info, draw, selectedPattern) ==
    LET base == RInt(60 + draw.conf)
        hasPair == info.pair \in DOMAIN profiles
        byPrice == PriceKnown(profiles, info)
        prediction == Direction(profiles, info, draw)
        c1 == IF byPrice
                THEN RAdd(base, RMin(RMul(PriceChange(info.entry,
                                                      profiles[info.pair].lastSeenPrice),
                                          RInt(100)),
                                     RInt(10)))
                ELSE base
        c2 == IF hasPair
                THEN RSub(c1, RMin(RMul(profiles[info.pair].volatility, RInt(10)), RInt(15)))
                ELSE c1
        c3 == IF selectedPattern \in DOMAIN table
                THEN LET d == table[selectedPattern]
                         a == RAdd(c2, RInt(d.confidenceAdjustment))
                     IN  IF d.feedbackCount > 0
                           THEN RAdd(a, RMul(RSub(Rat(d.successCount, d.feedbackCount),
                                                  <<1, 2>>),
                                             RInt(20)))
                           ELSE a
                ELSE c2
    IN  [ pattern |-> selectedPattern,
          prediction |-> prediction,
          confidence |-> CapConfidence(c3) ]

enhancedPatternRecognition(table, profiles, info, history, draw) ==
    LET patterns == MARKET_PATTERNS[Categories[draw.category]]
        ws == [ i \in 1..Len(patterns) |->
                  PatternWeight(table, profiles, info, history, patterns[i]) ]
    IN  PredictAndScore(table, profiles, info, draw,
                        SelectPattern(patterns, ws, draw.select))

-----------------------------------------------------------------------------
(* Statistics: generatePatternStatistics *)

\* winRate * (1 - factor) + rate * factor, rounded
Blend(winRate, rate, factor) ==
    RRound(RAdd(RMul(RInt(winRate), RSub(RInt(1), factor)), RMul(rate, factor)))

generatePatternStatistics(table, pattern, history, draw) ==
    LET w0 == 65 + draw.win
        s0 == 150 + draw.sample
        learned == pattern \in DOMAIN table /\ table[pattern].feedbackCount > 0
        d == table[pattern]
        w1 == IF learned
                THEN Blend(w0,
                           RMul(Rat(d.successCount, d.feedbackCount), RInt(100)),
                           RMin(Rat(d.feedbackCount, 10), <<4, 5>>))
                ELSE w0
        s1 == IF learned THEN s0 + d.feedbackCount ELSE s0
        total == Count(history, LAMBDA item : item.pattern = pattern)
        correct == Count(history, LAMBDA item : item.pattern = pattern /\ item.feedback = "true")
        w2 == IF total > 0
                THEN Blend(w1,
                           RMul(Rat(correct, total), RInt(100)),
                           RMin(Rat(total, 20), <<3, 5>>))
                ELSE w1
        s2 == IF total > 0 THEN s1 + total ELSE s1
    IN  [ winRate |-> w2, sampleSize |-> s2 ]

-----------------------------------------------------------------------------
(* analyzeChartImage, and its update of the trading-pair profile *)

\* Step 6 (lines 468-492)
NewProfile(info) ==
    [ patterns |-> << >>, volatility |-> <<1, 50>>, lastSeenPrice |-> info.entry ]

\* the mutant writes the pattern count without reading the count there is
UpdatedProfileOverwriting(pairData, info, pattern) ==
    [ patterns |-> [ q \in {pattern} |-> 1 ],
      volatility |-> pairData.volatility,
      lastSeenPrice |-> IF info.entry # 0 THEN info.entry ELSE pairData.lastSeenPrice ]

\* the mutant adds the price change to the volatility without decaying it
UpdatedProfileNoDecay(pairData, info, pattern) ==
    [ patterns |->
        [ q \in DOMAIN pairData.patterns \cup {pattern} |->
            IF q = pattern
              THEN (IF q \in DOMAIN pairData.patterns THEN pairData.patterns[q] ELSE 0) + 1
              ELSE pairData.patterns[q] ],
      volatility |->
        IF info.entry # 0 /\ pairData.lastSeenPrice # 0
          THEN RAdd(pairData.volatility,
                    RMul(PriceChange(info.entry, pairData.lastSeenPrice), <<3, 10>>))
          ELSE pairData.volatility,
      lastSeenPrice |-> IF info.entry # 0 THEN info.entry ELSE pairData.lastSeenPrice ]

UpdatedProfile(pairData, info, pattern) ==
    [ patterns |->
        [ q \in DOMAIN pairData.patterns \cup {pattern} |->
            IF q = pattern
              THEN (IF q \in DOMAIN pairData.patterns THEN pairData.patterns[q] ELSE 0) + 1
              ELSE pairData.patterns[q] ],
      volatility |->
        IF info.entry # 0 /\ pairData.lastSeenPrice # 0
          THEN RAdd(RMul(pairData.volatility, <<7, 10>>),
                    RMul(PriceChange(info.entry, pairData.lastSeenPrice), <<3, 10>>))
          ELSE pairData.volatility,
      lastSeenPrice |-> IF info.entry # 0 THEN info.entry ELSE pairData.lastSeenPrice ]

updatePairProfile(profiles, info, pattern) ==
    [ q \in DOMAIN profiles \cup {info.pair} |->
        IF q # info.pair THEN profiles[q]
        ELSE IF q \in DOMAIN profiles
               THEN UpdatedProfile(profiles[q], info, pattern)
               ELSE NewProfile(info) ]

\* The tables after enhancedPatternRecognition has selected a pattern, and
\* after generatePatternStatistics: both only call has() and get() on
\* learnedPatterns and tradingPairProfile and read the fields of what they get;
\* neither calls set() nor assigns to a field.  The mutant counts the selected
\* pattern in the profile of the pair.
TablesAfterRecognitionCounting(table, profiles, info, selectedPattern) ==
    [ table |-> table, profiles |-> updatePairProfile(profiles, info, selectedPattern) ]
TablesAfterRecognition(table, profiles, info, selectedPattern) ==
    [ table |-> table, profiles |-> profiles ]
TablesAfterStatisticsCreating(table, profiles, pattern) ==
    [ table |-> [ p \in DOMAIN table \cup {pattern} |->
                    IF p \in DOMAIN table THEN table[p] ELSE NewEntry ],
      profiles |-> profiles ]
TablesAfterStatistics(table, profiles, pattern) ==
    [ table |-> table, profiles |-> profiles ]

\* the tables after analyzeChartImage: steps 2 and 3, then step 6
TablesAfterSteps(t, info, pattern) ==
    [ table |-> t.table, profiles |-> updatePairProfile(t.profiles, info, pattern) ]
TablesAfterAnalysis(table, profiles, info, pattern) ==
    TablesAfterSteps(TablesAfterStatistics(
                         TablesAfterRecognition(table, profiles, info, pattern).table,
                         TablesAfterRecognition(table, profiles, info, pattern).profiles,
                         pattern),
                     info, pattern)

\* the value analyzeChartImage returns; `pair` is the pair its explanation names
MakeOutcome(r, st, info) ==
    [ kind |-> "result",
      pattern |-> r.pattern,
      prediction |-> r.prediction,
      confidence |-> r.confidence,
      winRate |-> st.winRate,
      sampleSize |-> st.sampleSize,
      pair |-> info.pair ]

WithStatistics(table, r, info, history, draw) ==
    MakeOutcome(r, generatePatternStatistics(table, r.pattern, history, draw), info)

AnalysisOutcome(table, profiles, info, history, draw) ==
    WithStatistics(table, enhancedPatternRecognition(table, profiles, info, history, draw),
                   info, history, draw)

-----------------------------------------------------------------------------
(* Spec: the scorer, driven by feedback events and analyses                *)

\* feedback events of one run of Spec
MaxFeedback == 3
\* analyses of one run of Spec
MaxAnalyses == 2

\* the analyses run so far: the one that created each profile, and one for
\* every pattern occurrence counted since
RECURSIVE SumOver(_, _)
SumOver(f, S) ==
    IF S = {} THEN 0
    ELSE LET x == CHOOSE y \in S : TRUE IN f[x] + SumOver(f, S \ {x})

AnalysesDone(profiles) ==
    SumOver([ q \in DOMAIN profiles |->
                1 + SumOver(profiles[q].patterns, DOMAIN profiles[q].patterns) ],
            DOMAIN profiles)

\* updateLearningModel(analysis, isCorrect) with analysis.pattern = pattern
UpdateLearning(pattern, isCorrect) ==
    /\ outcome = NoOutcome
    /\ TotalCalls(calls) < MaxFeedback
    /\ learnedPatterns' = updateLearningModel(learnedPatterns, pattern, isCorrect)
    /\ calls' = CountCall(calls, pattern, isCorrect)
    /\ UNCHANGED <<tradingPairProfile, outcome, patternLearning, plCalls, serverVars, chartVars, popupVars>>

\* analyzeChartImage(image, history), from its delay to its return
AnalyzeChartImage(info, history, draw) ==
    /\ outcome = NoOutcome
    /\ AnalysesDone(tradingPairProfile) < MaxAnalyses
    /\ outcome' = AnalysisOutcome(learnedPatterns, tradingPairProfile, info, history, draw)
    /\ \E t \in { TablesAfterAnalysis(learnedPatterns, tradingPairProfile, info,
                                      outcome'.pattern) } :
          /\ learnedPatterns' = t.table
          /\ tradingPairProfile' = t.profiles
    /\ UNCHANGED <<calls, patternLearning, plCalls, serverVars, chartVars, popupVars>>

\* the caller takes the returned value
TakeResult ==
    /\ outcome # NoOutcome
    /\ outcome' = NoOutcome
    /\ UNCHANGED <<learnedPatterns, tradingPairProfile, calls, patternLearning, plCalls, serverVars, chartVars, popupVars>>

Next ==
    \/ \E p \in FeedbackPatterns, b \in BOOLEAN : UpdateLearning(p, b)
    \/ \E info \in extractTradingInfo, h \in HistoryChoices, d \in RandomDraws :
          AnalyzeChartImage(info, h, d)
    \/ TakeResult

Spec == InitTables /\ [][Next]_vars

-----------------------------------------------------------------------------
(* SpecServer: the routes POST /api/analyze and POST /api/feedback over      *)
(* DatabaseStorage.  A handler runs until its next await; every database     *)
(* statement is one step, and the handlers of the clients interleave between *)
(* steps.  The columns of analyses that no statement reads back (imageUrl,   *)
(* prediction, confidence, winRate, sampleSize, explanation, timestamp) and  *)
(* the table trading_details, which is only inserted into, are left out.     *)

\* requests of one run of SpecServer
MaxRequests == 3

\* an analysis id no row of analyses has
UnknownId == 0

\* the draws and chart contents of the analyses run by SpecServer
ServerDraws == { d \in RandomDraws : d.category = 3 }
ServerInfos == { i \in extractTradingInfo : i.entry # 63000 }

\* select * from analyses where id = ...: with no such row the mutant answers
\* with the oldest row
getAnalysisByIdOldest(rows, id) ==
    IF id \in 1..Len(rows) THEN [found |-> TRUE, row |-> rows[id]]
    ELSE IF Len(rows) > 0 THEN [found |-> TRUE, row |-> rows[1]]
    ELSE [found |-> FALSE]

getAnalysisById(rows, id) ==
    IF id \in 1..Len(rows) THEN [found |-> TRUE, row |-> rows[id]]
    ELSE [found |-> FALSE]

\* select ... from analyses order by timestamp desc
getAnalysisHistory(rows) ==
    [ i \in 1..Len(rows) |->
        HistoryItem(rows[Len(rows) + 1 - i].pattern, rows[Len(rows) + 1 - i].feedback) ]

\* the locals of a handler before it has run
Locals ==
    [ pc |-> "idle", kind |-> "none", id |-> UnknownId, isCorrect |-> FALSE,
      patternId |-> 0, pairId |-> 0, newAnalysis |-> FALSE, body |-> 0,
      existingLearning |-> [found |-> FALSE],
      existingRelationship |-> [found |-> FALSE],
      currentStats |-> SeededStats, patternsLearned |-> 0,
      history |-> << >>, analysis |-> NoOutcome ]

Respond(code, value) ==
    [pc |-> "done", status |-> code, body |-> value, persistFailed |-> FALSE]

\* the catch of updateAnalysisFeedback (storage.ts 351-354) returns null, and
\* the route sends what it got with res.json (db.ts 175-177)
PersistFailedAnswer ==
    [pc |-> "done", status |-> 200, body |-> NULL, persistFailed |-> TRUE]

AtPc(c, label) == local[c].pc = label

\* a request that arrives is given the first handler that is free
Free(c) ==
    /\ local[c].pc \in {"idle", "done"}
    /\ \A d \in Clients : d < c => local[d].pc \notin {"idle", "done"}

Goto(c, l) == local' = [local EXCEPT ![c] = l]

\* ---- request bodies ----

\* a JSON value of a request body; a string is the sequence of its characters,
\* and the string of an analysis id is the one-character name of its row
JsonString(chars) == [type |-> "string", chars |-> chars]
JsonNumber(n) == [type |-> "number", number |-> n]
JsonBoolean(b) == [type |-> "boolean", boolean |-> b]
JsonUndefined == [type |-> "undefined"]

DataImagePrefix == <<"d", "a", "t", "a", ":", "i", "m", "a", "g", "e", "/">>

\* String.prototype.startsWith
startsWith(chars, prefix) ==
    /\ Len(chars) >= Len(prefix)
    /\ SubSeq(chars, 1, Len(prefix)) = prefix

\* the images a capture or another caller posts: a data URL of an image, a
\* data URL of a text, a number, and no image field at all
PostedImages ==
    { JsonString(DataImagePrefix \o <<"p", "n", "g">>),
      JsonString(<<"d", "a", "t", "a", ":", "t", "e", "x", "t", "/", "p", "l", "a", "i", "n">>),
      JsonNumber(7),
      JsonUndefined }

AnalyzeBodies == { [image |-> v] : v \in PostedImages }

\* the feedback bodies over the ids of rows and the id of no row
FeedbackBodies(rows) ==
    { [analysisId |-> a, isCorrect |-> b] :
        a \in { JsonString(<<id>>) : id \in (1..Len(rows)) \cup {UnknownId} }
               \cup {JsonNumber(1)},
        b \in { JsonBoolean(v) : v \in BOOLEAN }
               \cup {JsonString(<<"t", "r", "u", "e">>)} }

\* z.object({image: z.string()}): the mutant drops startsWith('data:image/')
imageAnalysisSchemaAnyString(body) ==
    body.image.type = "string"

\* imageAnalysisSchema.parse succeeds
imageAnalysisSchema(body) ==
    /\ body.image.type = "string"
    /\ startsWith(body.image.chars, DataImagePrefix)

\* feedbackSchema.parse succeeds
feedbackSchema(body) ==
    /\ body.analysisId.type = "string"
    /\ body.isCorrect.type = "boolean"

\* res.status(400).json({message: "Invalid input format", details})
InvalidInput == Respond(400, "Invalid input format")

\* ---- POST /api/feedback ----

\* the request arrives: a body that fails feedbackSchema is answered 400 by the
\* catch, a body that passes it calls getAnalysisById
StartFeedback(c, body) ==
    /\ Free(c)
    /\ requests < MaxRequests
    /\ requests' = requests + 1
    /\ IF feedbackSchema(body)
          THEN Goto(c, [Locals EXCEPT !.pc = "getAnalysis", !.kind = "feedback",
                                      !.id = body.analysisId.chars[1],
                                      !.isCorrect = body.isCorrect.boolean])
          ELSE Goto(c, InvalidInput)
    /\ UNCHANGED <<chartVars, unsaved, popupVars>>
    /\ UNCHANGED <<scorerVars, storeVars, analyses, tradingPairs, pairPatterns,
                   aiStats, learnedFrom>>

\* getAnalysisById answers; 404 when there is no row, else updateLearningModel
\* runs and updateAnalysisFeedback issues its select
FeedbackGetAnalysis(c) ==
    /\ AtPc(c, "getAnalysis")
    /\ LET existingAnalysis == getAnalysisById(analyses, local[c].id)
       IN IF ~ existingAnalysis.found
             THEN /\ Goto(c, Respond(404, "Analysis not found"))
                  /\ UNCHANGED <<learnedPatterns, calls, learnedFrom>>
             ELSE /\ learnedPatterns' =
                        updateLearningModel(learnedPatterns, existingAnalysis.row.pattern,
                                            local[c].isCorrect)
                  /\ calls' = CountCall(calls, existingAnalysis.row.pattern,
                                        local[c].isCorrect)
                  /\ learnedFrom' = [learnedFrom EXCEPT ![local[c].id] = @ + 1]
                  /\ Goto(c, [local[c] EXCEPT !.pc = "selectAnalysis"])
    /\ UNCHANGED <<chartVars, unsaved, popupVars>>
    /\ UNCHANGED <<tradingPairProfile, outcome, storeVars, analyses, tradingPairs,
                   pairPatterns, aiStats, requests>>

\* updateAnalysisFeedback: select the analysis; no row returns null, which the
\* route sends as the body of a 200 response
FeedbackSelectAnalysis(c) ==
    /\ AtPc(c, "selectAnalysis")
    /\ LET existingAnalysis == getAnalysisById(analyses, local[c].id)
       IN IF ~ existingAnalysis.found
             THEN Goto(c, Respond(200, NULL))
             ELSE Goto(c, [local[c] EXCEPT !.pc = "updateAnalysis",
                                           !.patternId = existingAnalysis.row.patternId,
                                           !.pairId = existingAnalysis.row.pairId])
    /\ UNCHANGED <<chartVars, unsaved, popupVars>>
    /\ UNCHANGED <<scorerVars, storeVars, analyses, tradingPairs, pairPatterns,
                   aiStats, requests, learnedFrom>>

\* updateAnalysisFeedback: update analyses set feedback = isCorrect where id = ...
FeedbackUpdateAnalysis(c) ==
    /\ AtPc(c, "updateAnalysis")
    /\ analyses' = [analyses EXCEPT ![local[c].id].feedback = Tri(local[c].isCorrect)]
    /\ Goto(c, [local[c] EXCEPT !.pc = IF local[c].patternId # 0
                                          THEN "selectLearning" ELSE "selectStats",
                                !.newAnalysis = FALSE,
                                !.body = local[c].id])
    /\ UNCHANGED <<chartVars, unsaved, popupVars>>
    /\ UNCHANGED <<scorerVars, storeVars, tradingPairs, pairPatterns, aiStats,
                   requests, learnedFrom>>

\* updateAnalysisFeedback: the select or the update of analyses is rejected by
\* the database
FeedbackPersistFails(c) ==
    /\ AtPc(c, "selectAnalysis") \/ AtPc(c, "updateAnalysis")
    /\ Goto(c, PersistFailedAnswer)
    /\ UNCHANGED <<chartVars, unsaved, popupVars>>
    /\ UNCHANGED <<scorerVars, storeVars, analyses, tradingPairs, pairPatterns,
                   aiStats, requests, learnedFrom>>

\* updatePatternLearning: select from pattern_learning where patternId = ...
LearningSelect(c) ==
    /\ AtPc(c, "selectLearning")
    /\ LET found == SelectLearning(patternLearning, local[c].patternId)
       IN IF found = {}
             THEN Goto(c, [local[c] EXCEPT !.pc = "writeLearning",
                                           !.existingLearning = [found |-> FALSE]])
             ELSE \E i \in found :
                     Goto(c, [local[c] EXCEPT !.pc = "writeLearning",
                                 !.existingLearning =
                                     [found |-> TRUE, id |-> i, row |-> patternLearning[i]]])
    /\ UNCHANGED <<chartVars, unsaved, popupVars>>
    /\ UNCHANGED <<scorerVars, storeVars, analyses, tradingPairs, pairPatterns,
                   aiStats, requests, learnedFrom>>

\* updatePatternLearning: the update or the insert the select decided on
LearningWrite(c) ==
    /\ AtPc(c, "writeLearning")
    /\ patternLearning' =
          IF local[c].existingLearning.found
             THEN WriteLearningUpdate(patternLearning, local[c].existingLearning.id,
                                      local[c].existingLearning.row, local[c].isCorrect)
             ELSE WriteLearningInsert(patternLearning, local[c].patternId,
                                      local[c].isCorrect)
    /\ plCalls' = CountCall(plCalls, local[c].patternId, local[c].isCorrect)
    /\ Goto(c, [local[c] EXCEPT !.pc = IF local[c].pairId # 0 /\ local[c].patternId # 0
                                          THEN "selectPairStats" ELSE "selectStats"])
    /\ UNCHANGED <<chartVars, unsaved, popupVars>>
    /\ UNCHANGED <<scorerVars, analyses, tradingPairs, pairPatterns, aiStats,
                   requests, learnedFrom>>


\* updateTradingPairStats: select from pair_patterns where pairId = ... and
\* patternId = ...
SelectRelationship(rows, pairId, patternId) ==
    { i \in 1..Len(rows) : rows[i].pairId = pairId /\ rows[i].patternId = patternId }

PairStatsSelect(c) ==
    /\ AtPc(c, "selectPairStats")
    /\ LET found == SelectRelationship(pairPatterns, local[c].pairId, local[c].patternId)
       IN IF found = {}
             THEN Goto(c, [local[c] EXCEPT !.pc = "writePairStats",
                                           !.existingRelationship = [found |-> FALSE]])
             ELSE \E i \in found :
                     Goto(c, [local[c] EXCEPT !.pc = "writePairStats",
                                 !.existingRelationship =
                                     [found |-> TRUE, id |-> i, row |-> pairPatterns[i]]])
    /\ UNCHANGED <<chartVars, unsaved, popupVars>>
    /\ UNCHANGED <<scorerVars, storeVars, analyses, tradingPairs, pairPatterns,
                   aiStats, requests, learnedFrom>>

\* the row written by the update branch of updateTradingPairStats
UpdatedRelationship(row, isCorrect) ==
    [ row EXCEPT
        !.occurrenceCount = row.occurrenceCount + 1,
        !.successRate =
            RMul(RAdd(RMul(row.successRate, RInt(row.occurrenceCount)),
                      RInt(IF isCorrect THEN 1 ELSE 0)),
                 Rat(1, row.occurrenceCount + 1)) ]

InsertedRelationship(pairId, patternId, isCorrect) ==
    [ pairId |-> pairId, patternId |-> patternId, occurrenceCount |-> 1,
      successRate |-> RInt(IF isCorrect THEN 1 ELSE 0) ]

\* updateTradingPairStats: the update or the insert; an insert that meets the
\* unique index pair_pattern_unique_idx fails, and the error is caught and logged
PairStatsWrite(c) ==
    /\ AtPc(c, "writePairStats")
    /\ pairPatterns' =
          IF local[c].existingRelationship.found
             THEN [pairPatterns EXCEPT ![local[c].existingRelationship.id] =
                      UpdatedRelationship(local[c].existingRelationship.row,
                                          local[c].isCorrect)]
          ELSE IF SelectRelationship(pairPatterns, local[c].pairId,
                                     local[c].patternId) # {}
             THEN pairPatterns
          ELSE Append(pairPatterns, InsertedRelationship(local[c].pairId,
                                       local[c].patternId, local[c].isCorrect))
    /\ Goto(c, [local[c] EXCEPT !.pc = "selectStats"])
    /\ UNCHANGED <<chartVars, unsaved, popupVars>>
    /\ UNCHANGED <<scorerVars, storeVars, analyses, tradingPairs, aiStats,
                   requests, learnedFrom>>

\* updateAiStats: select the latest ai_stats row (the seeded one: the insert
\* branch needs an empty table, and initializeDatabase has filled it)
StatsSelect(c) ==
    /\ AtPc(c, "selectStats")
    /\ Goto(c, [local[c] EXCEPT !.pc = "countPatterns", !.currentStats = aiStats])
    /\ UNCHANGED <<chartVars, unsaved, popupVars>>
    /\ UNCHANGED <<scorerVars, storeVars, analyses, tradingPairs, pairPatterns,
                   aiStats, requests, learnedFrom>>

\* updateAiStats: select count(distinct pattern) from analyses where feedback
\* is not null
CountPatterns(rows) ==
    Cardinality({ rows[i].pattern : i \in { j \in 1..Len(rows) : rows[j].feedback # NULL } })

StatsCount(c) ==
    /\ AtPc(c, "countPatterns")
    /\ Goto(c, [local[c] EXCEPT !.pc = "updateStats",
                                !.patternsLearned = CountPatterns(analyses)])
    /\ UNCHANGED <<chartVars, unsaved, popupVars>>
    /\ UNCHANGED <<scorerVars, storeVars, analyses, tradingPairs, pairPatterns,
                   aiStats, requests, learnedFrom>>

\* the row updateAiStats writes, from the row it read
UpdatedStats(currentStats, newAnalysis, newFeedback, isCorrect, patternsLearned) ==
    [ totalAnalyses |-> IF newAnalysis THEN currentStats.totalAnalyses + 1
                                       ELSE currentStats.totalAnalyses,
      feedbackCount |-> IF newFeedback THEN currentStats.feedbackCount + 1
                                       ELSE currentStats.feedbackCount,
      overallAccuracy |->
          IF newFeedback
             THEN RMul(RAdd(RMul(currentStats.overallAccuracy,
                                 RInt(currentStats.feedbackCount)),
                            RInt(IF isCorrect THEN 1 ELSE 0)),
                       Rat(1, currentStats.feedbackCount + 1))
             ELSE currentStats.overallAccuracy,
      patternsLearned |-> patternsLearned ]

\* updateAiStats: update ai_stats; then saveAnalysis or updateAnalysisFeedback
\* returns and the route answers with the analysis
StatsUpdate(c) ==
    /\ AtPc(c, "updateStats")
    /\ aiStats' = UpdatedStats(local[c].currentStats, local[c].newAnalysis,
                               ~ local[c].newAnalysis, local[c].isCorrect,
                               local[c].patternsLearned)
    /\ Goto(c, Respond(200, local[c].body))
    /\ UNCHANGED <<chartVars, unsaved, popupVars>>
    /\ UNCHANGED <<scorerVars, storeVars, analyses, tradingPairs, pairPatterns,
                   requests, learnedFrom>>

\* ---- POST /api/analyze ----

\* the request arrives: a body that fails imageAnalysisSchema is answered 400
\* by the catch, a body that passes it calls getAnalysisHistory
StartAnalyze(c, body) ==
    /\ Free(c)
    /\ requests < MaxRequests
    /\ requests' = requests + 1
    /\ IF imageAnalysisSchema(body)
          THEN Goto(c, [Locals EXCEPT !.pc = "getHistory", !.kind = "analyze"])
          ELSE Goto(c, InvalidInput)
    /\ UNCHANGED <<chartVars, unsaved, popupVars>>
    /\ UNCHANGED <<scorerVars, storeVars, analyses, tradingPairs, pairPatterns,
                   aiStats, learnedFrom>>

AnalyzeGetHistory(c) ==
    /\ AtPc(c, "getHistory")
    /\ Goto(c, [local[c] EXCEPT !.pc = "analyze",
                                !.history = getAnalysisHistory(analyses)])
    /\ UNCHANGED <<chartVars, unsaved, popupVars>>
    /\ UNCHANGED <<scorerVars, storeVars, analyses, tradingPairs, pairPatterns,
                   aiStats, requests, learnedFrom>>

\* analyzeChartImage after its delay
AnalyzeRun(c, info, draw) ==
    /\ AtPc(c, "analyze")
    /\ LET analysis == AnalysisOutcome(learnedPatterns, tradingPairProfile, info,
                                       local[c].history, draw)
       IN /\ \E t \in { TablesAfterAnalysis(learnedPatterns, tradingPairProfile, info,
                                            analysis.pattern) } :
                /\ learnedPatterns' = t.table
                /\ tradingPairProfile' = t.profiles
          /\ Goto(c, [local[c] EXCEPT !.pc = "saveAnalysis", !.history = << >>,
                                      !.analysis = analysis])
    /\ UNCHANGED <<chartVars, unsaved, popupVars>>
    /\ UNCHANGED <<outcome, calls, storeVars, analyses, tradingPairs,
                   pairPatterns, aiStats, requests, learnedFrom>>

\* trading_pairs after the find-or-create of saveAnalysis
WithPair(pairs, name) == IF IndexOf(pairs, name, 1) # 0 THEN pairs ELSE Append(pairs, name)

\* the row saveAnalysis inserts
AnalysisRow(analysis, pairs) ==
    [ pattern |-> analysis.pattern,
      patternId |-> PatternId(analysis.pattern),
      tradingPair |-> analysis.pair,
      pairId |-> IndexOf(WithPair(pairs, analysis.pair), analysis.pair, 1),
      feedback |-> NULL ]

\* saveAnalysis: the pattern id, and select from trading_pairs where name = the
\* pair the explanation names; pairId is 0 when there is no such row
AnalyzeFindPair(c) ==
    /\ AtPc(c, "saveAnalysis")
    /\ Goto(c, [local[c] EXCEPT !.pc = "insertAnalysis",
                                !.pairId = IndexOf(tradingPairs, local[c].analysis.pair, 1)])
    /\ UNCHANGED <<chartVars, unsaved, popupVars>>
    /\ UNCHANGED <<scorerVars, storeVars, analyses, tradingPairs, pairPatterns,
                   aiStats, requests, learnedFrom>>

\* the insert into trading_pairs of a pair that was not found meets the unique
\* constraint on trading_pairs.name when the name is stored by now
PairInsertRejected(pairs, l) ==
    l.pairId = 0 /\ IndexOf(pairs, l.analysis.pair, 1) # 0

\* saveAnalysis up to its call of updateAiStats: the pair created when none
\* was found, the analysis inserted.  A rejected insert throws, saveAnalysis
\* throws on (storage.ts 305-308) and the route answers with 500.
AnalyzeSave(c) ==
    /\ AtPc(c, "insertAnalysis")
    /\ IF PairInsertRejected(tradingPairs, local[c])
         THEN /\ Goto(c, Respond(500, "Failed to analyze chart image"))
              /\ unsaved' = [unsaved EXCEPT ![local[c].analysis.pair] = @ + 1]
              /\ UNCHANGED <<tradingPairs, analyses, learnedFrom>>
         ELSE /\ unsaved' = unsaved
              /\ tradingPairs' = WithPair(tradingPairs, local[c].analysis.pair)
              /\ analyses' = Append(analyses, AnalysisRow(local[c].analysis, tradingPairs))
              /\ learnedFrom' = Append(learnedFrom, 0)
              /\ Goto(c, [local[c] EXCEPT !.pc = "selectStats", !.newAnalysis = TRUE,
                                          !.body = Len(analyses) + 1,
                                          !.pairId = 0,
                                          !.analysis = NoOutcome])
    /\ UNCHANGED <<chartVars, popupVars>>
    /\ UNCHANGED <<scorerVars, storeVars, pairPatterns, aiStats, requests>>

NextServer ==
    \/ \E c \in Clients, body \in FeedbackBodies(analyses) : StartFeedback(c, body)
    \/ \E c \in Clients : FeedbackGetAnalysis(c)
    \/ \E c \in Clients : FeedbackSelectAnalysis(c)
    \/ \E c \in Clients : FeedbackUpdateAnalysis(c)
    \/ \E c \in Clients : FeedbackPersistFails(c)
    \/ \E c \in Clients : LearningSelect(c)
    \/ \E c \in Clients : LearningWrite(c)
    \/ \E c \in Clients : PairStatsSelect(c)
    \/ \E c \in Clients : PairStatsWrite(c)
    \/ \E c \in Clients : StatsSelect(c)
    \/ \E c \in Clients : StatsCount(c)
    \/ \E c \in Clients : StatsUpdate(c)
    \/ \E c \in Clients, body \in AnalyzeBodies : StartAnalyze(c, body)
    \/ \E c \in Clients : AnalyzeGetHistory(c)
    \/ \E c \in Clients, info \in ServerInfos, draw \in ServerDraws :
          AnalyzeRun(c, info, draw)
    \/ \E c \in Clients : AnalyzeFindPair(c)
    \/ \E c \in Clients : AnalyzeSave(c)

SpecServer == InitTables /\ [][NextServer]_vars

-----------------------------------------------------------------------------
(* SpecChart: analyzeChart, the wrapper that asks the external vision model  *)
(* and falls back to analyzeChartImage.  A call is a sequence of steps, one  *)
(* for each await; the calls of one run follow each other.                   *)

\* analyzeChart calls of one run of SpecChart
MaxChartCalls == 2

\* the draws and chart contents of the simulated analyses of SpecChart
ChartDraws == { d \in RandomDraws : d.category = 5 /\ d.select # <<0, 1>> }
ChartInfos == ServerInfos

\* NaN, the value of Number(x) for a string x that is not a number: a value no
\* number of the answers drawn takes
NaN == 0 - 1000000

\* Math.min and Math.max: NaN when an argument is NaN
MathMin(a, b) == IF a = NaN \/ b = NaN THEN NaN ELSE Min(a, b)
MathMax(a, b) == IF a = NaN \/ b = NaN THEN NaN ELSE Max(a, b)

\* what JSON.parse returns for the answers of the vision model that are drawn,
\* each number field as Number() converts it: a complete answer, an answer
\* whose numbers and prediction need the normalisation, an answer without
\* confidence, and an answer whose confidence and winRate are strings that are
\* not numbers ("high", "70%")
ExternalResults ==
    { [ pattern |-> "Double Top", prediction |-> "bearish", confidence |-> 75,
        winRate |-> 70, sampleSize |-> 250 ],
      [ pattern |-> "Bull Flag", prediction |-> "Bullish continuation", confidence |-> 150,
        winRate |-> 0, sampleSize |-> 1000 ],
      [ pattern |-> "Head and Shoulders", prediction |-> "bearish", confidence |-> 0,
        winRate |-> 70, sampleSize |-> 250 ],
      [ pattern |-> "Rising Wedge", prediction |-> "bearish", confidence |-> NaN,
        winRate |-> NaN, sampleSize |-> 250 ] }

\* the answers of the vision model: a message with JSON, a message without
\* content, a message that is not JSON
ExternalResponses ==
    { [content |-> "json", result |-> r] : r \in ExternalResults }
    \cup { [content |-> "empty"], [content |-> "text"] }

\* lines 153-164: the answer can be used
ValidResponse(response) ==
    /\ response.content = "json"
    /\ response.result.pattern # ""
    /\ response.result.prediction # ""
    /\ response.result.confidence # 0

\* the error thrown for an answer that cannot be used
ResponseError(response) ==
    IF response.content = "empty" THEN "No content received from OpenAI"
    ELSE IF response.content = "text" THEN "SyntaxError"
    ELSE "Invalid response format from OpenAI"

\* lines 167-174: the analysis analyzeChartWithOpenAI returns
OpenAIAnalysis(result) ==
    [ pattern |-> result.pattern,
      prediction |-> result.prediction,
      confidence |-> RInt(MathMin(100, MathMax(1, result.confidence))),
      winRate |-> MathMin(90, MathMax(50, IF result.winRate = 0 THEN 65 ELSE result.winRate)),
      sampleSize |-> MathMin(500, MathMax(50, IF result.sampleSize = 0 THEN 200
                                                                       ELSE result.sampleSize)) ]

\* String(prediction).toLowerCase().includes("bull"), over the predictions drawn
IncludesBull(prediction) == prediction \in {"bullish", "Bullish continuation"}

\* lines 38-63: the value analyzeChart returns for an analysis
NormalizeAnalysis(analysis) ==
    [ pattern |-> analysis.pattern,
      prediction |-> IF analysis.prediction \in {"bullish", "bearish"}
                        THEN analysis.prediction
                        ELSE IF IncludesBull(analysis.prediction) THEN "bullish"
                                                                  ELSE "bearish",
      confidence |-> RInt(MathMin(100, MathMax(1, RRound(analysis.confidence)))),
      winRate |-> MathMin(90, MathMax(50, analysis.winRate)),
      sampleSize |-> MathMin(500, MathMax(50, analysis.sampleSize)) ]

\* the fields of an analyzeChartImage result that analyzeChart reads
SimulatedAnalysis(o) ==
    [ pattern |-> o.pattern, prediction |-> o.prediction, confidence |-> o.confidence,
      winRate |-> o.winRate, sampleSize |-> o.sampleSize ]

\* the locals of a call before it has run
ChartLocals ==
    [ pc |-> "getHistory", apiKey |-> FALSE, history |-> << >>, openaiError |-> "none",
      simulatorError |-> FALSE, source |-> "none",
      simulated |-> NoOutcome, result |-> NoOutcome ]

\* the mutant of the catch of lines 27-31: the error of the external call is
\* thrown on, to the catch of lines 64-67
OnOpenAIErrorRethrow(l, message) == [l EXCEPT !.pc = "failed", !.openaiError = message]

\* lines 27-31: the error of the external call is caught, and analyzeChartImage
\* is called
OnOpenAIError(l, message) == [l EXCEPT !.pc = "simulate", !.openaiError = message]

\* analyzeChart is called; process.env.OPENAI_API_KEY is read by the call
ChartStart(apiKey) ==
    /\ chart.pc \in {"idle", "done", "failed"}
    /\ chartCalls < MaxChartCalls
    /\ chartCalls' = chartCalls + 1
    /\ chart' = [ChartLocals EXCEPT !.apiKey = apiKey]
    /\ UNCHANGED <<scorerVars, storeVars, serverVars, popupVars>>

\* storage.getAnalysisHistory answers with the analyses stored at the time
\* (the empty list when the query fails); then the external call is issued, or
\* analyzeChartImage is called when there is no key
ChartGetHistory(history) ==
    /\ chart.pc = "getHistory"
    /\ chart' = [chart EXCEPT !.history = history,
                              !.pc = IF chart.apiKey THEN "awaitOpenAI" ELSE "simulate"]
    /\ UNCHANGED <<scorerVars, storeVars, serverVars, chartCalls, popupVars>>

\* the vision model answers: a usable answer is normalised and returned, any
\* other makes analyzeChartWithOpenAI throw
OpenAIResponds(response) ==
    /\ chart.pc = "awaitOpenAI"
    /\ chart' = IF ValidResponse(response)
                   THEN [chart EXCEPT !.pc = "done", !.source = "openai",
                            !.history = << >>,
                            !.result = NormalizeAnalysis(OpenAIAnalysis(response.result))]
                   ELSE OnOpenAIError(chart, ResponseError(response))
    /\ UNCHANGED <<scorerVars, storeVars, serverVars, chartCalls, popupVars>>

\* the request to the vision model fails: openai.chat.completions.create rejects
OpenAIFails ==
    /\ chart.pc = "awaitOpenAI"
    /\ chart' = OnOpenAIError(chart, "Connection error")
    /\ UNCHANGED <<scorerVars, storeVars, serverVars, chartCalls, popupVars>>

\* analyzeChartImage returns after its delay, and analyzeChart returns
ChartSimulate(info, draw) ==
    /\ chart.pc = "simulate"
    /\ \E analysis \in { AnalysisOutcome(learnedPatterns, tradingPairProfile, info,
                                         chart.history, draw) } :
          /\ \E t \in { TablesAfterAnalysis(learnedPatterns, tradingPairProfile, info,
                                            analysis.pattern) } :
                /\ learnedPatterns' = t.table
                /\ tradingPairProfile' = t.profiles
          /\ chart' = [chart EXCEPT !.pc = "done", !.source = "simulated",
                          !.history = << >>,
                          !.simulated = SimulatedAnalysis(analysis),
                          !.result = NormalizeAnalysis(analysis)]
    /\ UNCHANGED <<outcome, calls, storeVars, serverVars, chartCalls, popupVars>>

\* analyzeChartImage throws (its catch, lines 505-508 of openai.ts), and the
\* catch of lines 64-67 throws on
ChartSimulateFails ==
    /\ chart.pc = "simulate"
    /\ chart' = [chart EXCEPT !.pc = "failed", !.simulatorError = TRUE,
                              !.history = << >>]
    /\ UNCHANGED <<scorerVars, storeVars, serverVars, chartCalls, popupVars>>

\* feedback between the calls: updateLearningModel
ChartFeedback(pattern, isCorrect) ==
    /\ chart.pc \in {"idle", "done", "failed"}
    /\ TotalCalls(calls) < MaxChartCalls
    /\ learnedPatterns' = updateLearningModel(learnedPatterns, pattern, isCorrect)
    /\ calls' = CountCall(calls, pattern, isCorrect)
    /\ UNCHANGED <<tradingPairProfile, outcome, storeVars, serverVars, chartVars, popupVars>>

NextChart ==
    \/ \E apiKey \in BOOLEAN : ChartStart(apiKey)
    \/ \E history \in HistoryChoices : ChartGetHistory(history)
    \/ \E response \in ExternalResponses : OpenAIResponds(response)
    \/ OpenAIFails
    \/ \E info \in ChartInfos, draw \in ChartDraws : ChartSimulate(info, draw)
    \/ ChartSimulateFails
    \/ \E isCorrect \in BOOLEAN : ChartFeedback("Hammer Candlestick", isCorrect)

SpecChart == InitTables /\ [][NextChart]_vars

\* the steps of the call itself are taken when they can be: the history query
\* is answered and the delay of analyzeChartImage expires.  Nothing in the
\* code makes the vision model answer or the request to it end.
SpecChartFair ==
    /\ SpecChart
    /\ WF_vars(\E history \in HistoryChoices : ChartGetHistory(history))
    /\ WF_vars(ChartSimulateFails
               \/ \E info \in ChartInfos, draw \in ChartDraws : ChartSimulate(info, draw))

-----------------------------------------------------------------------------
(* SpecNames: updateLearningModel called directly, as the export it is, with *)
(* any string as the pattern name of the analysis                            *)

\* updateLearningModel calls of one run of SpecNames
MaxNamedCalls == 8

\* the pattern names of the calls: a name of the taxonomy, a name outside it,
\* and the empty string
PatternNames == {"Hammer Candlestick", "Unlisted Pattern", ""}

\* the feedback events a learning table holds
RECURSIVE FeedbackTotal(_, _)
FeedbackTotal(table, names) ==
    IF names = {} THEN 0
    ELSE LET p == CHOOSE q \in names : TRUE
         IN  table[p].feedbackCount + FeedbackTotal(table, names \ {p})

UpdateLearningNamed(pattern, isCorrect) ==
    /\ FeedbackTotal(learnedPatterns, DOMAIN learnedPatterns) < MaxNamedCalls
    /\ learnedPatterns' = updateLearningModel(learnedPatterns, pattern, isCorrect)
    /\ UNCHANGED <<tradingPairProfile, outcome, calls, storeVars, serverVars, chartVars, popupVars>>

NextNames == \E p \in PatternNames, b \in BOOLEAN : UpdateLearningNamed(p, b)

SpecNames == InitTables /\ [][NextNames]_vars


-----------------------------------------------------------------------------
(* The weighted selection after long runs of feedback on the first pattern
   of a category: updateLearningModel, then analyzeChartImage *)

MaxSelectFeedback == 9

\* the pattern the feedback is about: patterns[0] of the category "continuation"
FirstPatterns == { MARKET_PATTERNS["continuation"][1] }

\* the draws whose category is "continuation"
SelectionDraws == { d \in RandomDraws : d.category = 1 }

UpdateLearningFirst(pattern, isCorrect) ==
    /\ outcome = NoOutcome
    /\ FeedbackTotal(learnedPatterns, DOMAIN learnedPatterns) < MaxSelectFeedback
    /\ learnedPatterns' = updateLearningModel(learnedPatterns, pattern, isCorrect)
    /\ calls' = CountCall(calls, pattern, isCorrect)
    /\ UNCHANGED <<tradingPairProfile, outcome, storeVars, serverVars, chartVars, popupVars>>

NextSelection ==
    \/ \E p \in FirstPatterns, b \in BOOLEAN : UpdateLearningFirst(p, b)
    \/ \E info \in extractTradingInfo, h \in HistoryChoices, d \in SelectionDraws :
          AnalyzeChartImage(info, h, d)
    \/ TakeResult

SpecSelection == InitTables /\ [][NextSelection]_vars


-----------------------------------------------------------------------------
(* SpecPopup: the view state machine of the extension popup                  *)
(* (client/src/components/extension-popup.tsx).  Every event handler and     *)
(* every mutation callback is one step.  A mutate call of                    *)
(* analyzeImageMutation is a request in flight; requests complete in any     *)
(* order, each with the result of the server or with an error, and the       *)
(* onSuccess and onError given to useMutation run for every request, not     *)
(* only for the latest.  The aiStatus indicator and the toasts take no part  *)
(* in the view state and are left out.                                       *)

\* captures of one run of SpecPopup
MaxCaptures == 3

\* feedback clicks of one run of SpecPopup
MaxPopupFeedback == 2

\* the images a capture hands to handleCapture
CapturedImages == {"chart-a", "chart-b"}

Image(url) == [kind |-> "image", url |-> url]

\* the id of an analysis stored before the popup was opened
EarlierAnalysis == 0

\* the TAnalysisResult the server answers for the n-th request with
AnalysisResult(n, url) == [kind |-> "analysis", id |-> n, imageUrl |-> url]

\* what GET /api/history answers: the analysis stored earlier and those of the
\* requests that succeeded, newest first
ServerHistory(ms) ==
    LET stored == { i \in 1..Len(ms) : ms[i].status = "success" }
        RECURSIVE Newest(_)
        Newest(S) == IF S = {} THEN << >>
                     ELSE LET i == CHOOSE j \in S : \A k \in S : k <= j
                          IN  <<AnalysisResult(i, ms[i].image)>> \o Newest(S \ {i})
    IN  Newest(stored) \o <<AnalysisResult(EarlierAnalysis, "chart-a")>>

\* handleCapture: called by CaptureControls, which every view shows, and by
\* CaptureSelection
handleCapture(imageBase64) ==
    /\ Len(mutations) < MaxCaptures
    /\ capturedImage' = Image(imageBase64)
    /\ captureMode' = FALSE
    /\ viewState' = "loading"
    /\ mutations' = Append(mutations, [image |-> imageBase64, status |-> "pending"])
    /\ UNCHANGED <<currentAnalysis, historyData, feedbackSent>>
    /\ UNCHANGED <<scorerVars, storeVars, serverVars, chartVars>>

\* analyzeImageMutation.onSuccess for the n-th request
AnalyzeSucceeds(n) ==
    /\ n \in 1..Len(mutations)
    /\ mutations[n].status = "pending"
    /\ mutations' = [mutations EXCEPT ![n].status = "success"]
    /\ currentAnalysis' = AnalysisResult(n, mutations[n].image)
    /\ viewState' = "analysis"
    /\ UNCHANGED <<captureMode, capturedImage, historyData, feedbackSent>>
    /\ UNCHANGED <<scorerVars, storeVars, serverVars, chartVars>>

\* analyzeImageMutation.onError for the n-th request
AnalyzeFails(n) ==
    /\ n \in 1..Len(mutations)
    /\ mutations[n].status = "pending"
    /\ mutations' = [mutations EXCEPT ![n].status = "error"]
    /\ viewState' = "capture"
    /\ UNCHANGED <<captureMode, capturedImage, currentAnalysis, historyData, feedbackSent>>
    /\ UNCHANGED <<scorerVars, storeVars, serverVars, chartVars>>

\* the query of /api/history fetches, at mount and after an invalidation
HistoryFetched ==
    /\ historyData' = ServerHistory(mutations)
    /\ historyData' # historyData
    /\ UNCHANGED <<viewState, captureMode, capturedImage, currentAnalysis, mutations,
                   feedbackSent>>
    /\ UNCHANGED <<scorerVars, storeVars, serverVars, chartVars>>

\* HistoryView onSelectItem
SelectItem(k) ==
    /\ viewState = "history"
    /\ k \in 1..Len(historyData)
    /\ currentAnalysis' = historyData[k]
    /\ capturedImage' = Image(historyData[k].imageUrl)
    /\ viewState' = "analysis"
    /\ UNCHANGED <<captureMode, mutations, historyData, feedbackSent>>
    /\ UNCHANGED <<scorerVars, storeVars, serverVars, chartVars>>

\* the header buttons History and Settings, the footer buttons Capture and
\* History
ShowView(view) ==
    /\ viewState' = view
    /\ viewState' # viewState
    /\ UNCHANGED <<captureMode, capturedImage, currentAnalysis, mutations, historyData,
                   feedbackSent>>
    /\ UNCHANGED <<scorerVars, storeVars, serverVars, chartVars>>

\* the footer button Analysis without its test of currentAnalysis
ShowAnalysisUnguarded ==
    /\ viewState # "analysis"
    /\ viewState' = "analysis"
    /\ UNCHANGED <<captureMode, capturedImage, currentAnalysis, mutations, historyData,
                   feedbackSent>>
    /\ UNCHANGED <<scorerVars, storeVars, serverVars, chartVars>>

\* the footer button Analysis: currentAnalysis ? setViewState("analysis") : null
ShowAnalysis ==
    /\ currentAnalysis # NoValue
    /\ viewState # "analysis"
    /\ viewState' = "analysis"
    /\ UNCHANGED <<captureMode, capturedImage, currentAnalysis, mutations, historyData,
                   feedbackSent>>
    /\ UNCHANGED <<scorerVars, storeVars, serverVars, chartVars>>

\* handleFeedback, called by the FeedbackControls of the analysis view
handleFeedback(isCorrect) ==
    /\ viewState = "analysis"
    /\ currentAnalysis # NoValue
    /\ feedbackSent < MaxPopupFeedback
    /\ feedbackSent' = feedbackSent + 1
    /\ UNCHANGED <<viewState, captureMode, capturedImage, currentAnalysis, mutations,
                   historyData>>
    /\ UNCHANGED <<scorerVars, storeVars, serverVars, chartVars>>

NextPopup ==
    \/ \E imageBase64 \in CapturedImages : handleCapture(imageBase64)
    \/ \E n \in 1..MaxCaptures : AnalyzeSucceeds(n)
    \/ \E n \in 1..MaxCaptures : AnalyzeFails(n)
    \/ HistoryFetched
    \/ \E k \in 1..(MaxCaptures + 1) : SelectItem(k)
    \/ \E view \in {"capture", "history", "settings"} : ShowView(view)
    \/ ShowAnalysis
    \/ \E isCorrect \in BOOLEAN : handleFeedback(isCorrect)

SpecPopup == InitTables /\ [][NextPopup]_vars

-----------------------------------------------------------------------------
(* Properties of the feedback integrators, checked under SpecLearn *)

EntryOrZero(p) == IF p \in DOMAIN learnedPatterns THEN learnedPatterns[p] ELSE NewEntry

\* C1: for every pattern the entry exists exactly when a call was made for it,
\* its feedbackCount is the number of updateLearningModel calls made for the
\* pattern and its successCount the number of those with isCorrect = true, so
\* 0 <= successCount <= feedbackCount; 5 correct and 1 incorrect give 6, 5, 4.
C1_CountsMatchCalls ==
    \A p \in FeedbackPatterns :
        /\ (p \in DOMAIN learnedPatterns) <=> (calls[p].n > 0)
        /\ EntryOrZero(p).feedbackCount = calls[p].n
        /\ EntryOrZero(p).successCount = calls[p].ok
        /\ 0 <= EntryOrZero(p).successCount
        /\ EntryOrZero(p).successCount <= EntryOrZero(p).feedbackCount
        /\ (calls[p].n = 6 /\ calls[p].ok = 5)
              => EntryOrZero(p).confidenceAdjustment = 4

C1_Witness ==
    /\ "Hammer Candlestick" \in DOMAIN learnedPatterns
    /\ learnedPatterns["Hammer Candlestick"] =
          [confidenceAdjustment |-> 4, feedbackCount |-> 6, successCount |-> 5]
    /\ calls["Hammer Candlestick"] = [n |-> 6, ok |-> 5]

\* the change one step makes to an adjustment, given what the event was
StepWithinOne(old, new, c, c2) ==
    /\ new \in (0 - 10)..10
    /\ c2.n = c.n => new = old
    /\ (c2.n = c.n + 1 /\ c2.ok = c.ok + 1) => new - old \in {0, 1}
    /\ (c2.n = c.n + 1 /\ c2.ok = c.ok) => new - old \in {0, 0 - 1}

\* C2: every confidenceAdjustment, of the in-memory table and of the
\* pattern_learning rows, is an integer in [-10, 10], and one feedback event
\* changes it by +1 or 0 when correct and by -1 or 0 when incorrect.
C2_AdjustmentBoundedStep ==
    [][ /\ \A p \in DOMAIN learnedPatterns' :
              StepWithinOne(EntryOrZero(p).confidenceAdjustment,
                            learnedPatterns'[p].confidenceAdjustment,
                            calls[p], calls'[p])
        /\ \A i \in 1..Len(patternLearning') :
              StepWithinOne(IF i <= Len(patternLearning)
                               THEN patternLearning[i].confidenceAdjustment ELSE 0,
                            patternLearning'[i].confidenceAdjustment,
                            plCalls[patternLearning'[i].patternId],
                            plCalls'[patternLearning'[i].patternId])
      ]_vars

\* an adjustment that stayed at the cap although one more event arrived
C2_Witness ==
    \E p \in DOMAIN learnedPatterns :
        /\ learnedPatterns[p].confidenceAdjustment = 0 - 10
        /\ learnedPatterns[p].feedbackCount = 11
        /\ \E i \in 1..Len(patternLearning) :
              /\ patternLearning[i].patternId = PatternId(p)
              /\ patternLearning[i].confidenceAdjustment = 0 - 10
              /\ patternLearning[i].feedbackCount = 11

\* C3: after N calls for a pattern that were all correct the entry is
\* (N, N, min(N, 10)); after N calls that were all incorrect it is
\* (N, 0, max(-N, -10)).
C3_ConsecutiveFeedback ==
    \A p \in FeedbackPatterns :
        LET n == calls[p].n
            e == EntryOrZero(p)
        IN  /\ calls[p].ok = n =>
                  /\ e.feedbackCount = n
                  /\ e.successCount = n
                  /\ e.confidenceAdjustment = Min(n, 10)
            /\ calls[p].ok = 0 =>
                  /\ e.feedbackCount = n
                  /\ e.successCount = 0
                  /\ e.confidenceAdjustment = Max(0 - n, 0 - 10)

C3_Witness ==
    /\ calls["Bollinger Band Squeeze"] = [n |-> 11, ok |-> 11]
    /\ learnedPatterns["Bollinger Band Squeeze"].confidenceAdjustment = 10

\* the adjustment that the counts of an entry or row alone would give
ClampedBalance(e) ==
    Max(0 - 10, Min(10, e.successCount - (e.feedbackCount - e.successCount)))

\* C25: the learning state of a pattern depends only on how many correct and
\* how many incorrect feedback events it received: confidenceAdjustment is
\* clamp(successCount - (feedbackCount - successCount), -10, 10), in the
\* in-memory table and in pattern_learning.
C25_OrderIndependent ==
    /\ \A p \in DOMAIN learnedPatterns :
          learnedPatterns[p].confidenceAdjustment = ClampedBalance(learnedPatterns[p])
    /\ \A i \in 1..Len(patternLearning) :
          patternLearning[i].confidenceAdjustment = ClampedBalance(patternLearning[i])

\* C25, amended: feedbackCount and successCount are the numbers of events and
\* of correct events, whatever their order; confidenceAdjustment is within
\* -10..10, and it is the clamped balance of the counts for a pattern that
\* received at most 11 events (the clamp can have cut at most the last one).
C25_OrderIndependentUpTo11 ==
    /\ \A p \in FeedbackPatterns :
          LET e == EntryOrZero(p)
          IN  /\ e.feedbackCount = calls[p].n
              /\ e.successCount = calls[p].ok
              /\ e.confidenceAdjustment \in (0 - 10)..10
              /\ e.feedbackCount <= 11 => e.confidenceAdjustment = ClampedBalance(e)
    /\ \A i \in 1..Len(patternLearning) :
          LET row == patternLearning[i]
          IN  /\ row.feedbackCount = plCalls[row.patternId].n
              /\ row.successCount = plCalls[row.patternId].ok
              /\ row.confidenceAdjustment \in (0 - 10)..10
              /\ row.feedbackCount <= 11 => row.confidenceAdjustment = ClampedBalance(row)

\* ten correct events and one incorrect one, in some order, left the
\* adjustment at the balance 9 in both stores
C25_Witness ==
    /\ calls["Hammer Candlestick"] = [n |-> 11, ok |-> 10]
    /\ learnedPatterns["Hammer Candlestick"].confidenceAdjustment = 9
    /\ \E i \in 1..Len(patternLearning) :
          /\ patternLearning[i].patternId = PatternId("Hammer Candlestick")
          /\ patternLearning[i].confidenceAdjustment = 9

\* the counters of an in-memory entry or of a pattern_learning row
Triple(e) == <<e.feedbackCount, e.successCount, e.confidenceAdjustment>>

\* C26: after the same series of feedback events for a pattern, applied one
\* after the other to updateLearningModel and to updatePatternLearning, the
\* pattern has an in-memory entry exactly when it has a pattern_learning row,
\* there is one such row, and (feedbackCount, successCount,
\* confidenceAdjustment) of the entry and of the row are equal.
C26_IntegratorsAgree ==
    \A p \in FeedbackPatterns :
        LET rows == SelectLearning(patternLearning, PatternId(p))
        IN  IF p \in DOMAIN learnedPatterns
              THEN /\ Cardinality(rows) = 1
                   /\ \A i \in rows : Triple(patternLearning[i]) = Triple(learnedPatterns[p])
              ELSE rows = {}

\* both integrators have applied the cap and then moved back from it: eleven
\* incorrect events and one correct one
C26_Witness ==
    /\ "Hammer Candlestick" \in DOMAIN learnedPatterns
    /\ Triple(learnedPatterns["Hammer Candlestick"]) = <<12, 1, 0 - 9>>
    /\ \E i \in SelectLearning(patternLearning, PatternId("Hammer Candlestick")) :
          Triple(patternLearning[i]) = <<12, 1, 0 - 9>>

-----------------------------------------------------------------------------
(* Properties of the scorer, checked under Spec *)

\* C6: for every pattern name, every reachable learning table, every history
\* list and every value of the random draws, generatePatternStatistics
\* returns a winRate within [50, 90] and a sampleSize of at least 150.
C6_StatisticsInRange ==
    \A p \in Taxonomy, h \in HistoryChoices, d \in RandomDraws :
        LET st == generatePatternStatistics(learnedPatterns, p, h, d)
        IN  /\ st.winRate >= 50
            /\ st.winRate <= 90
            /\ st.sampleSize >= 150

\* C7: every analysis returns a pattern of the taxonomy and a confidence
\* within [50, 95].
C7_PatternAndConfidenceInRange ==
    outcome.kind = "result" =>
        /\ outcome.pattern \in Taxonomy
        /\ RLe(RInt(50), outcome.confidence)
        /\ RLe(outcome.confidence, RInt(95))

\* an analysis of a known pair that selected a pattern with learning state and
\* whose confidence was cut down to 95
C7_Witness ==
    /\ outcome.kind = "result"
    /\ outcome.pattern \in DOMAIN learnedPatterns
    /\ learnedPatterns[outcome.pattern].confidenceAdjustment = 3
    /\ outcome.pair = "BTC/USD"
    /\ tradingPairProfile["BTC/USD"].patterns # << >>
    /\ outcome.confidence = RInt(95)

\* feedback for two different patterns gives the same table in both orders
FeedbackCommutes(table) ==
    \A p \in FeedbackPatterns, q \in FeedbackPatterns, b \in BOOLEAN, c \in BOOLEAN :
        p # q =>
            updateLearningModel(updateLearningModel(table, p, b), q, c)
              = updateLearningModel(updateLearningModel(table, q, c), p, b)

\* C12: updateLearningModel for pattern P changes the learning entry of P only:
\* the entries of the other patterns and the trading-pair profiles stay as
\* they are, no entry of another pattern appears, and two calls for different
\* patterns give the same table in either order.
C12_FeedbackFrame ==
    [][ calls' # calls =>
          /\ tradingPairProfile' = tradingPairProfile
          /\ \A q \in DOMAIN learnedPatterns :
                calls'[q] = calls[q] =>
                    /\ q \in DOMAIN learnedPatterns'
                    /\ learnedPatterns'[q] = learnedPatterns[q]
          /\ \A q \in DOMAIN learnedPatterns' :
                q \in DOMAIN learnedPatterns \/ calls'[q] # calls[q]
          /\ FeedbackCommutes(learnedPatterns)
          /\ FeedbackCommutes(learnedPatterns') ]_vars

\* feedback has arrived for two patterns, in a run that has pair profiles
C12_Witness ==
    /\ \A p \in FeedbackPatterns : p \in DOMAIN learnedPatterns
    /\ learnedPatterns["Hammer Candlestick"].feedbackCount = 2
    /\ learnedPatterns["Bollinger Band Squeeze"].feedbackCount = 1
    /\ DOMAIN tradingPairProfile # {}

\* the tables are what they were, after either function
TablesAsBefore(table, profiles) ==
    \A info \in extractTradingInfo, p \in Taxonomy :
        /\ TablesAfterRecognition(table, profiles, info, p)
             = [table |-> table, profiles |-> profiles]
        /\ TablesAfterStatistics(table, profiles, p)
             = [table |-> table, profiles |-> profiles]

\* C13: enhancedPatternRecognition and generatePatternStatistics are
\* read-only: for every input the learning table and the pair-profile table
\* are the same before and after, so an analysis leaves the learning table as
\* it is and changes the profile table by its step 6 only.
C13_SelectionReadOnly ==
    [][ /\ TablesAsBefore(learnedPatterns, tradingPairProfile)
        /\ (outcome = NoOutcome /\ outcome' # NoOutcome) =>
              /\ learnedPatterns' = learnedPatterns
              /\ \E info \in extractTradingInfo :
                    /\ info.pair = outcome'.pair
                    /\ tradingPairProfile' =
                          updatePairProfile(tradingPairProfile, info, outcome'.pattern) ]_vars

\* an analysis has run on a learning table and a profile of its pair that
\* both hold the pattern it selected
C13_Witness ==
    /\ outcome.kind = "result"
    /\ outcome.pattern \in DOMAIN learnedPatterns
    /\ learnedPatterns[outcome.pattern].feedbackCount = 2
    /\ outcome.pair \in DOMAIN tradingPairProfile
    /\ outcome.pattern \in DOMAIN tradingPairProfile[outcome.pair].patterns

\* the count of a pattern in the profile of a pair, 0 when there is none
PatternCount(profiles, pair, pattern) ==
    IF pair \in DOMAIN profiles /\ pattern \in DOMAIN profiles[pair].patterns
       THEN profiles[pair].patterns[pattern] ELSE 0

\* C15: every analysis of a pair, the one that creates the profile included,
\* adds 1 to the count of the pattern it selected (the first analysis gives
\* {P: 1}, the second makes it 2), so that the counts of a profile sum to the
\* number of analyses of the pair.
C15_PatternCounted ==
    [][ (outcome = NoOutcome /\ outcome' # NoOutcome) =>
          /\ PatternCount(tradingPairProfile', outcome'.pair, outcome'.pattern)
               = PatternCount(tradingPairProfile, outcome'.pair, outcome'.pattern) + 1
          /\ \A p \in Taxonomy \ {outcome'.pattern} :
                PatternCount(tradingPairProfile', outcome'.pair, p)
                  = PatternCount(tradingPairProfile, outcome'.pair, p) ]_vars

\* C16: a learning entry for a pattern exists exactly when feedback for the
\* pattern has been recorded: analyses create no entry, an entry is never
\* removed, and its feedbackCount and successCount never decrease.
C16_EntryLifecycle ==
    [][ /\ \A p \in DOMAIN learnedPatterns' : p \in Taxonomy
        /\ \A p \in Taxonomy :
              /\ (p \in DOMAIN learnedPatterns) <=> (calls[p].n > 0)
              /\ (p \in DOMAIN learnedPatterns') <=> (calls'[p].n > 0)
              /\ p \in DOMAIN learnedPatterns =>
                    /\ p \in DOMAIN learnedPatterns'
                    /\ learnedPatterns'[p].feedbackCount >= learnedPatterns[p].feedbackCount
                    /\ learnedPatterns'[p].successCount >= learnedPatterns[p].successCount ]_vars

\* an analysis has returned a pattern that has no entry, after feedback for
\* another pattern, one event of it incorrect
C16_Witness ==
    /\ outcome.kind = "result"
    /\ outcome.pattern \notin DOMAIN learnedPatterns
    /\ \E p \in DOMAIN learnedPatterns :
          /\ learnedPatterns[p].feedbackCount = 3
          /\ learnedPatterns[p].successCount = 2

\* the categories of the taxonomy are the five named ones, no name occurs
\* twice, trading_patterns is seeded with the same names, and the pattern an
\* analysis returns is one of them
TaxonomyShape ==
    /\ outcome.kind = "result" =>
          /\ outcome.pattern \in Taxonomy
          /\ PatternId(outcome.pattern) \in 1..Cardinality(Taxonomy)
    /\ DOMAIN MARKET_PATTERNS
         = {"continuation", "reversal", "consolidation", "breakout", "candlestick"}
    /\ SeqRange(Categories) = DOMAIN MARKET_PATTERNS
    /\ Len(Categories) = 5
    /\ SumOver([ c \in DOMAIN MARKET_PATTERNS |-> Len(MARKET_PATTERNS[c]) ],
               DOMAIN MARKET_PATTERNS) = Cardinality(Taxonomy)
    /\ SeqRange(SeededPatterns) = Taxonomy
    /\ Len(SeededPatterns) = Cardinality(Taxonomy)
    /\ \A c \in DOMAIN MARKET_PATTERNS :
          SeqRange(patternData[c]) = SeqRange(MARKET_PATTERNS[c])

\* C17, as stated: the taxonomy has exactly 25 distinct names in exactly 5
\* categories, and the database is seeded with the same names.
C17_Taxonomy25 ==
    /\ TaxonomyShape
    /\ Cardinality(Taxonomy) = 25

\* C17, amended: the taxonomy has exactly 27 distinct names in exactly 5
\* categories (5 each, and 7 candlestick names), and the database is seeded
\* with the same names.
C17_Taxonomy27 ==
    /\ TaxonomyShape
    /\ Cardinality(Taxonomy) = 27
    /\ \A c \in DOMAIN MARKET_PATTERNS :
          Len(MARKET_PATTERNS[c]) = IF c = "candlestick" THEN 7 ELSE 5

\* an analysis has selected the last name of the taxonomy, the 27th seeded
C17_Witness ==
    /\ outcome.kind = "result"
    /\ outcome.pattern = "Doji Formation"
    /\ PatternId(outcome.pattern) = 27

\* the step is an analysis of `info`: a result is returned for its pair, and
\* the profile table is left as updatePairProfile leaves it for `info`
AnalysisOf(info) ==
    /\ outcome = NoOutcome
    /\ outcome' # NoOutcome
    /\ info.pair = outcome'.pair
    /\ tradingPairProfile' = updatePairProfile(tradingPairProfile, info, outcome'.pattern)

\* the result of the step is the one analyzeChartImage returns for `info` and
\* the pattern it selected, with the history h and the draws d of the
\* confidence, the direction and the statistics
DrawnWith(info, h, d) ==
    outcome' = MakeOutcome(PredictAndScore(learnedPatterns, tradingPairProfile, info, d,
                                           outcome'.pattern),
                           generatePatternStatistics(learnedPatterns, outcome'.pattern, h, d),
                           info)

\* C20: when the pair has a profile with a non-zero lastSeenPrice and the call
\* supplies a non-zero entry price, the prediction of an analysis is bullish
\* exactly when entry > lastSeenPrice (equal prices give bearish) and is the
\* same for every random draw; in every other case the prediction is bullish
\* exactly when the direction draw is above 0.5.
C20_DirectionRule ==
    [][ \A info \in extractTradingInfo :
          AnalysisOf(info) =>
              IF /\ info.pair \in DOMAIN tradingPairProfile
                 /\ tradingPairProfile[info.pair].lastSeenPrice # 0
                 /\ info.entry # 0
                THEN /\ (outcome'.prediction = "bullish")
                           <=> (info.entry > tradingPairProfile[info.pair].lastSeenPrice)
                     /\ \A d \in RandomDraws :
                           PredictAndScore(learnedPatterns, tradingPairProfile, info, d,
                                           outcome'.pattern).prediction
                               = outcome'.prediction
                ELSE \A h \in HistoryChoices, d \in RandomDraws :
                         DrawnWith(info, h, d) =>
                             ((outcome'.prediction = "bullish") <=> d.up) ]_vars

\* a second analysis of BTC/USD at the price of the first one (the volatility
\* decayed once, by a price change of 0) predicted bearish
C20_Witness ==
    /\ outcome.kind = "result"
    /\ outcome.pair = "BTC/USD"
    /\ outcome.prediction = "bearish"
    /\ tradingPairProfile["BTC/USD"].lastSeenPrice = 60000
    /\ tradingPairProfile["BTC/USD"].volatility = <<7, 500>>

-----------------------------------------------------------------------------
(* Properties of the routes over DatabaseStorage, checked under SpecServer *)

\* some handler has read the pattern_learning row of this pattern id and has
\* not yet written
LearningInProgress(patternId) ==
    \E c \in Clients : AtPc(c, "writeLearning") /\ local[c].patternId = patternId

\* C4: no update of the persisted learning store is lost, however the reads and
\* writes of concurrent updatePatternLearning calls interleave: once the calls
\* for a pattern have completed there is exactly one pattern_learning row for
\* it, its feedbackCount is the number of calls and its successCount the number
\* of calls with isCorrect (and there is no row when there was no call).
C4_NoLostUpdate ==
    \A patternId \in DOMAIN plCalls :
        ~ LearningInProgress(patternId) =>
            LET found == SelectLearning(patternLearning, patternId)
            IN IF plCalls[patternId].n = 0
                  THEN found = {}
                  ELSE /\ Cardinality(found) = 1
                       /\ \A i \in found :
                             /\ patternLearning[i].feedbackCount = plCalls[patternId].n
                             /\ patternLearning[i].successCount = plCalls[patternId].ok

\* C5: an analysis is stored with feedback null, and its feedback is set once:
\* a stored feedback value never changes, no learning update is applied for an
\* analysis that has feedback, and no analysis gets more than one learning update.
C5_FeedbackSetOnce ==
    [][ \A i \in 1..Len(analyses') :
           /\ i > Len(analyses) => analyses'[i].feedback = NULL
           /\ (i <= Len(analyses) /\ analyses[i].feedback # NULL) =>
                 /\ analyses'[i].feedback = analyses[i].feedback
                 /\ learnedFrom'[i] = learnedFrom[i]
           /\ learnedFrom'[i] <= 1 ]_vars

\* the handler is at the getAnalysisById call of a feedback request whose id is
\* not stored
AtUnknownId(l, rows) == l.pc = "getAnalysis" /\ l.id \notin 1..Len(rows)

\* C10: feedback for an analysis id that storage does not know is answered
\* with 404, and neither the arrival of the request nor its answer changes the
\* in-memory learning table, the analyses or the persisted learning and
\* statistics rows.
C10_UnknownIdNotFound ==
    [][ \A c \in Clients :
           /\ AtUnknownId(local[c], analyses) /\ local'[c] # local[c] =>
                 /\ local'[c].pc = "done"
                 /\ local'[c].status = 404
                 /\ UNCHANGED <<learnedPatterns, calls, learnedFrom, analyses,
                                patternLearning, plCalls, pairPatterns, aiStats,
                                tradingPairs>>
           /\ AtUnknownId(local'[c], analyses') /\ local'[c] # local[c] =>
                 UNCHANGED <<learnedPatterns, calls, learnedFrom, analyses,
                             patternLearning, plCalls, pairPatterns, aiStats,
                             tradingPairs>> ]_vars

\* a 404 was answered while there were analyses and learning rows to change
C10_Witness ==
    /\ \E c \in Clients : local[c].pc = "done" /\ local[c].status = 404
    /\ Len(analyses) > 0
    /\ Len(patternLearning) > 0
    /\ DOMAIN learnedPatterns # {}

-----------------------------------------------------------------------------
(* Properties of analyzeChart, checked under SpecChart and SpecChartFair *)

\* C8, as stated: when the external call has failed, analyzeChart returns the
\* result of analyzeChartImage, and the call fails only when analyzeChartImage
\* has failed.
C8_ReturnsSimulatedResult ==
    /\ chart.pc = "failed" => chart.simulatorError
    /\ (chart.pc = "done" /\ chart.openaiError # "none") =>
          chart.source = "simulated" /\ chart.result = chart.simulated

\* C8, amended: when the external call has failed, analyzeChart returns the
\* result of analyzeChartImage after the normalisation of lines 38-51
\* (confidence rounded and kept in 1..100, winRate in 50..90, sampleSize in
\* 50..500), and the call fails only when analyzeChartImage has failed.
C8_ReturnsNormalizedSimulatedResult ==
    /\ chart.pc = "failed" => chart.simulatorError
    /\ (chart.pc = "done" /\ chart.openaiError # "none") =>
          /\ chart.source = "simulated"
          /\ chart.result = NormalizeAnalysis(chart.simulated)
          /\ chart.result.pattern = chart.simulated.pattern
          /\ chart.result.prediction = chart.simulated.prediction
          /\ RIsInt(chart.result.confidence)
          /\ chart.result.confidence[1] \in 1..100
          /\ chart.result.winRate \in 50..90
          /\ chart.result.sampleSize \in 50..500

\* the external call failed and the call returned the analysis of
\* analyzeChartImage with its confidence rounded, its winRate and sampleSize
\* being in range already
C8_Witness ==
    /\ chart.pc = "done"
    /\ chart.openaiError # "none"
    /\ chart.source = "simulated"
    /\ chart.result.confidence # chart.simulated.confidence
    /\ chart.result.winRate = chart.simulated.winRate
    /\ chart.result.sampleSize = chart.simulated.sampleSize

\* C9: an analyzeChart call that waits for the vision model eventually returns
\* a result or an error, also when the model never answers.
C9_CallCompletes ==
    (chart.pc = "awaitOpenAI") ~> (chart.pc \in {"done", "failed"})

-----------------------------------------------------------------------------
(* Properties of updateLearningModel as a function of its arguments, checked *)
(* under SpecNames                                                           *)

\* C11: a call with the empty pattern name is rejected: the learning table
\* never holds an entry keyed by the empty string.
C11_NoEmptyName == "" \notin DOMAIN learnedPatterns

-----------------------------------------------------------------------------
(* Properties of the in-memory tables under concurrent requests, checked     *)
(* under SpecServer                                                          *)

\* the analyses of a pair whose analyzeChartImage call has returned: the ones
\* stored and the ones about to be stored
AnalysesRun(pair) ==
    Cardinality({ i \in 1..Len(analyses) : analyses[i].tradingPair = pair })
    + Cardinality({ c \in Clients :
                      /\ local[c].pc \in {"saveAnalysis", "insertAnalysis"}
                      /\ local[c].analysis.pair = pair })
    + unsaved[pair]

\* C14: the in-memory tables are updated atomically: whatever the interleaving
\* of concurrent requests, no feedback update and no pattern count is lost.
\* Every learning entry holds the feedback calls made for its pattern, and
\* every pair profile holds the analyses run for its pair, as they would after
\* the same calls run one after the other (the analysis that creates the
\* profile, and one pattern count for each analysis since).
C14_InMemoryAtomic ==
    /\ \A p \in Taxonomy :
          /\ (p \in DOMAIN learnedPatterns) <=> (calls[p].n > 0)
          /\ EntryOrZero(p).feedbackCount = calls[p].n
          /\ EntryOrZero(p).successCount = calls[p].ok
    /\ \A info \in ServerInfos :
          IF AnalysesRun(info.pair) = 0
             THEN info.pair \notin DOMAIN tradingPairProfile
             ELSE /\ info.pair \in DOMAIN tradingPairProfile
                  /\ AnalysesDone(tradingPairProfile) =
                        SumOver([ i \in ServerInfos |-> AnalysesRun(i.pair) ], ServerInfos)
                  /\ 1 + SumOver(tradingPairProfile[info.pair].patterns,
                                 DOMAIN tradingPairProfile[info.pair].patterns)
                       = AnalysesRun(info.pair)
                  /\ tradingPairProfile[info.pair].lastSeenPrice = info.entry

\* two analyses of one pair are in progress at once, both past their delay,
\* after an earlier analysis of the pair
C14_Witness ==
    /\ \A c \in Clients : local[c].pc = "saveAnalysis"
    /\ local[1].analysis.pair = local[2].analysis.pair
    /\ Len(analyses) = 1
    /\ analyses[1].tradingPair = local[1].analysis.pair

-----------------------------------------------------------------------------
(* Properties of the weighted selection, checked under Spec *)

\* the weights of the patterns of one category, as enhancedPatternRecognition
\* computes them from the tables
CategoryWeights(table, profiles, info, history, category) ==
    LET patterns == MARKET_PATTERNS[category]
    IN  [ i \in 1..Len(patterns) |->
            PatternWeight(table, profiles, info, history, patterns[i]) ]

\* C18: for every reachable learning table and profile table, every trading
\* info and every history list, each per-pattern weight is strictly positive
\* before normalization, so the total weight is positive and the normalized
\* weights (weight / total) each lie in [0, 1] and sum to 1.
C18_WeightsPositive ==
    \A category \in DOMAIN MARKET_PATTERNS, info \in extractTradingInfo, history \in HistoryChoices :
        LET ws == CategoryWeights(learnedPatterns, tradingPairProfile, info, history, category)
            ns == Scaled(ws, CommonDen(ws, Len(ws)))
            total == IntSum(ns, Len(ns))
        IN  /\ \A i \in DOMAIN ws : ws[i][1] > 0 /\ ws[i][2] > 0
            /\ total > 0
            /\ \A i \in DOMAIN ns : 0 <= ns[i] /\ ns[i] <= total

-----------------------------------------------------------------------------
(* Properties of the weighted selection, checked under SpecSelection *)

\* rand <= cumulativeWeight after the pattern at index i (lines 224-225), the
\* normalized weights being weight / totalWeight in IEEE arithmetic: when
\* totalWeight is 0 a positive weight becomes +Infinity, a negative one
\* -Infinity and a zero one NaN, so the cumulative weight is +Infinity while
\* every weight so far is positive, and -Infinity or NaN otherwise.
CumulativeReaches(ns, i, rand) ==
    LET total == IntSum(ns, Len(ns))
    IN  IF total = 0 THEN \A j \in 1..i : ns[j] > 0
                     ELSE Reached(rand, IntSum(ns, i), total)

\* C19: for every reachable pair of tables, every trading info, history list
\* and draw r, the pattern the weighted selection returns is the first pattern
\* in list order whose cumulative normalized weight is >= r.
C19_FirstWhoseCumulativeReaches ==
    \A category \in DOMAIN MARKET_PATTERNS, info \in extractTradingInfo,
       history \in HistoryChoices, rand \in SelectDraws :
        LET patterns == MARKET_PATTERNS[category]
            ws == CategoryWeights(learnedPatterns, tradingPairProfile, info, history, category)
            ns == Scaled(ws, CommonDen(ws, Len(ws)))
            selected == SelectPattern(patterns, ws, rand)
        IN  \E i \in 1..Len(patterns) :
               /\ patterns[i] = selected
               /\ CumulativeReaches(ns, i, rand)
               /\ \A j \in 1..(i - 1) : ~CumulativeReaches(ns, j, rand)

-----------------------------------------------------------------------------
(* Properties of the trading-pair profile, checked under Spec *)

\* the profile `after` is what step 6 makes of the profile `before` for a call
\* that supplies the price `entry` (0 when it supplies none)
PriceUpdated(before, after, entry) ==
    /\ after.lastSeenPrice = IF entry # 0 THEN entry ELSE before.lastSeenPrice
    /\ after.volatility =
          IF entry # 0 /\ before.lastSeenPrice # 0
            THEN LET ratio == <<entry, before.lastSeenPrice>>
                     change == RAbs(RSub(Rat(ratio[1], ratio[2]), <<1, 1>>))
                 IN  RAdd(RMul(before.volatility, <<7, 10>>), RMul(change, <<3, 10>>))
            ELSE before.volatility

\* C21: an analysis of a pair that has a profile leaves its volatility at
\* volatility * 0.7 + |price / lastSeenPrice - 1| * 0.3 when a price is
\* supplied and lastSeenPrice # 0, and unchanged otherwise; lastSeenPrice
\* becomes the supplied price, or stays when none is supplied; a new profile
\* has volatility 0.02 and lastSeenPrice the observed price or 0; and the
\* volatility of every profile is >= 0.
C21_ProfilePriceUpdate ==
    [][ /\ \A q \in DOMAIN tradingPairProfile' :
              RLe(<<0, 1>>, tradingPairProfile'[q].volatility)
        /\ (outcome = NoOutcome /\ outcome' # NoOutcome) =>
              \E info \in extractTradingInfo :
                 /\ info.pair = outcome'.pair
                 /\ \A q \in DOMAIN tradingPairProfile :
                       q # info.pair => tradingPairProfile'[q] = tradingPairProfile[q]
                 /\ IF info.pair \in DOMAIN tradingPairProfile
                      THEN PriceUpdated(tradingPairProfile[info.pair],
                                        tradingPairProfile'[info.pair], info.entry)
                      ELSE /\ tradingPairProfile'[info.pair].volatility = <<1, 50>>
                           /\ tradingPairProfile'[info.pair].lastSeenPrice = info.entry ]_vars

\* a pair whose price is never observed has been analysed twice: the second
\* analysis found lastSeenPrice 0 and left the volatility at 0.02
C21_Witness ==
    /\ outcome.kind = "result"
    /\ outcome.pair = "USD/JPY"
    /\ "USD/JPY" \in DOMAIN tradingPairProfile
    /\ DOMAIN tradingPairProfile["USD/JPY"].patterns # {}
    /\ tradingPairProfile["USD/JPY"].lastSeenPrice = 0
    /\ tradingPairProfile["USD/JPY"].volatility = <<1, 50>>

-----------------------------------------------------------------------------
(* Properties of the confidence analyzeChartImage returns, checked under Spec *)

\* C22: the confidence of every result analyzeChartImage returns is an integer.
C22_ConfidenceIsInteger ==
    outcome.kind = "result" => RIsInt(outcome.confidence)

-----------------------------------------------------------------------------
(* Properties of the result of analyzeChart, checked under SpecChart *)

\* C23: whatever the vision model or the simulator returned, the result of
\* analyzeChart has a prediction in {bullish, bearish}, a confidence that is
\* an integer in 1..100, a winRate in 50..90 and a sampleSize in 50..500.
C23_ResultNormalized ==
    chart.pc = "done" =>
        /\ chart.result.prediction \in {"bullish", "bearish"}
        /\ RIsInt(chart.result.confidence)
        /\ chart.result.confidence[1] \in 1..100
        /\ chart.result.winRate \in 50..90
        /\ chart.result.sampleSize \in 50..500

-----------------------------------------------------------------------------
(* Properties of the weight of a pattern under feedback, checked under SpecLearn *)

\* the weight enhancedPatternRecognition computes for a pattern from the
\* learning table alone: (1 + confidenceAdjustment) * (0.5 + successRate), for
\* a pair without profile and an empty history
LearnedWeight(table, pattern) ==
    LET w == PatternWeight(table, << >>, [pair |-> "BTC/USD", entry |-> 0], << >>, pattern)
    IN  Rat(w[1], w[2])

\* C24: a correct feedback event for a pattern never decreases the weight the
\* selection computes for it, and an incorrect one never increases it.
C24_WeightFollowsFeedback ==
    [][ \A p \in FeedbackPatterns :
          calls'[p].n = calls[p].n + 1 =>
              IF calls'[p].ok = calls[p].ok + 1
                THEN RLe(LearnedWeight(learnedPatterns, p), LearnedWeight(learnedPatterns', p))
                ELSE RLe(LearnedWeight(learnedPatterns', p), LearnedWeight(learnedPatterns, p))
      ]_vars

-----------------------------------------------------------------------------
(* Properties of a feedback request whose persisting fails, checked under
   SpecServer *)

\* a feedback request for the analysis `id` is being handled
FeedbackInProgress(id) ==
    \E c \in Clients :
        /\ local[c].pc \notin {"idle", "done"}
        /\ local[c].kind = "feedback"
        /\ local[c].id = id

\* C27: a feedback request whose updateAnalysisFeedback failed is not answered
\* with success, and the learning table is updated only for feedback that was
\* persisted: once the requests for an analysis have been answered, the
\* analysis has a learning update only if it has a stored feedback.
C27_LearnsOnlyPersistedFeedback ==
    /\ \A c \in Clients :
          (local[c].pc = "done" /\ local[c].persistFailed) => local[c].status # 200
    /\ \A id \in 1..Len(analyses) :
          (~ FeedbackInProgress(id) /\ learnedFrom[id] > 0) => analyses[id].feedback # NULL

-----------------------------------------------------------------------------
(* Properties of concurrent saveAnalysis calls, checked under SpecServer *)

\* C28: saveAnalysis calls that name the same pair succeed under every
\* interleaving of their lookups and inserts: no analyze request is answered
\* with 500, trading_pairs has one row for a name, and every analysis that was
\* run is stored and references the row of its pair.
C28_ConcurrentSavesSucceed ==
    /\ \A c \in Clients : local[c].pc = "done" => local[c].status # 500
    /\ \A i, j \in 1..Len(tradingPairs) : tradingPairs[i] = tradingPairs[j] => i = j
    /\ \A i \in 1..Len(analyses) :
          /\ analyses[i].pairId \in 1..Len(tradingPairs)
          /\ tradingPairs[analyses[i].pairId] = analyses[i].tradingPair

-----------------------------------------------------------------------------
(* Properties of request validation, checked under SpecServer *)

\* the image of the body is not a string starting with 'data:image/'
ImageFailsValidation(body) ==
    \/ body.image.type # "string"
    \/ Len(body.image.chars) < 11
    \/ \E i \in 1..11 : body.image.chars[i] # DataImagePrefix[i]

\* analysisId is not a string or isCorrect is not a boolean
FeedbackFailsValidation(body) ==
    \/ body.analysisId.type # "string"
    \/ body.isCorrect.type # "boolean"

\* the step is the arrival, at handler c, of a request whose body fails
\* validation
InvalidRequestAt(c) ==
    /\ requests' # requests
    /\ \/ \E body \in AnalyzeBodies :
             ImageFailsValidation(body) /\ StartAnalyze(c, body)
       \/ \E body \in FeedbackBodies(analyses) :
             FeedbackFailsValidation(body) /\ StartFeedback(c, body)

\* C29: a POST /api/analyze or POST /api/feedback whose body fails validation
\* is answered with HTTP 400 in the step it arrives in, so no analysis is run
\* or saved for it, and the learning table, the pair profiles, the stored
\* analyses and every other table are unchanged; and an answer of 400 is
\* never given by a step that changes any of them.
C29_InvalidBodyRejected ==
    [][ \A c \in Clients :
           /\ InvalidRequestAt(c) =>
                 /\ local'[c].pc = "done"
                 /\ local'[c].status = 400
                 /\ UNCHANGED <<learnedPatterns, calls, tradingPairProfile, outcome,
                                storeVars, analyses, tradingPairs, pairPatterns,
                                aiStats, learnedFrom, unsaved>>
           /\ ( /\ local'[c].pc = "done"
                /\ local'[c].status = 400
                /\ local[c].pc = "done" => local[c].status # 400 ) =>
                 /\ InvalidRequestAt(c)
                 /\ UNCHANGED <<learnedPatterns, calls, tradingPairProfile, outcome,
                                storeVars, analyses, tradingPairs, pairPatterns,
                                aiStats, learnedFrom, unsaved>> ]_vars

\* a request was answered 400 while there were stored analyses, learned
\* patterns and pair profiles that it could have changed
C29_Witness ==
    /\ \E c \in Clients : local[c].pc = "done" /\ local[c].status = 400
    /\ Len(analyses) > 0
    /\ DOMAIN learnedPatterns # {}
    /\ DOMAIN tradingPairProfile # {}

-----------------------------------------------------------------------------
(* Properties of the extension popup, checked under SpecPopup *)

\* the n-th analyze request completes in this step with the given status
Completes(n, status) ==
    /\ n \in 1..Len(mutations)
    /\ mutations[n].status = "pending"
    /\ mutations'[n].status = status

\* the request of the latest capture is still in flight
LatestPending(ms) == Len(ms) > 0 /\ ms[Len(ms)].status = "pending"

\* C30: under any sequence of captures, request completions, history
\* selections and navigation clicks, the popup shows the analysis view only
\* with a non-null currentAnalysis; the completion of an analyze request sets
\* viewState to "analysis" and currentAnalysis to the returned result on
\* success and viewState to "capture" on error; and the popup shows the
\* loading view only while the request of the latest capture is in flight.
C30_ViewStateMachine ==
    [][ /\ viewState' = "analysis" => currentAnalysis' # NoValue
        /\ \A n \in 1..MaxCaptures :
              /\ Completes(n, "success") =>
                    /\ viewState' = "analysis"
                    /\ currentAnalysis' = AnalysisResult(n, mutations[n].image)
              /\ Completes(n, "error") => viewState' = "capture"
        /\ viewState' = "loading" => LatestPending(mutations') ]_vars

\* two requests were in flight at once and completed in the order opposite to
\* their captures, the first one with an error after the analysis of the
\* second was shown
C30_Witness ==
    /\ Len(mutations) = 2
    /\ mutations[2].status = "success"
    /\ mutations[1].status = "error"
    /\ viewState = "capture"
    /\ currentAnalysis = AnalysisResult(2, mutations[2].image)

=============================================================================
